---- MODULE Spec2Model ----
(***************************************************************************)
(* Model of the OCI object-storage backend of restic                       *)
(* (internal/backend/oci/oci.go).  The state is the remote bucket and, per *)
(* caller, the position of the adapter operation that caller is running.   *)
(* Every remote call of an operation is one step; the local code between   *)
(* two remote calls belongs to the step of the call before it.             *)
(*                                                                         *)
(* Strings that the code takes apart are modelled by their parts: an       *)
(* object key is the sequence of its "/"-separated segments (so "p/keys/"  *)
(* is <<"p", "keys", "">>), a byte range is the sequence of the tokens     *)
(* that fmt.Sprintf writes.  Errors are records [kind, wrap]; Nil is the   *)
(* nil error.                                                              *)
(*                                                                         *)
(* The functions of config.go and getRange issue no remote call; each has  *)
(* a specification of its own that draws the arguments and applies the     *)
(* function.  Open and Create are run on one config drawn at the start.    *)
(***************************************************************************)
EXTENDS Integers, Sequences, FiniteSets, TLC

\* ------------------------------------------------------------------ bounds
MaxLen == 3          \* longest content of an object, in bytes
PageLimit == 2       \* entries the remote service returns per listing page
MaxStart == 5        \* largest |start| and |end| that getRange is given
MaxTail == 6         \* longest text after "oci:" that ParseConfig is given

\* ------------------------------------------------------ program constants
HTTPNotFound == 404  \* the status code IsNotExist and Stat compare with
DefaultConnections == 5   \* Connections of NewConfig()

Procs == {1, 2}

VARIABLES
  bucket,   \* object key -> content (a sequence of bytes) or NoObject
  pc,       \* caller -> position in the operation it runs ("idle": none)
  loc,      \* caller -> arguments and locals of that operation
  result,   \* caller -> what its last operation returned
  ctxDone,  \* caller -> its context has been cancelled
  issued,   \* caller -> the remote calls its operation has issued so far
  saved,    \* object key -> stream of the last Save that returned success
            \*   for the key and was not written over since, else NoObject
  exists,   \* the bucket named by the config exists in the object store
  be,       \* caller -> the backend its last Open or Create returned
  call      \* the call of a function without remote calls: its arguments
            \*   and, once it has returned, what it returned

vars == <<bucket, pc, loc, result, ctxDone, issued, saved, exists, be, call>>

\* ------------------------------------------------------------------ values
Bytes == {1, 2}

RECURSIVE SeqsUpTo(_)
SeqsUpTo(n) ==
  IF n = 0 THEN {<<>>}
  ELSE LET S == SeqsUpTo(n - 1)
       IN  S \cup {Append(s, b) : s \in {t \in S : Len(t) = n - 1}, b \in Bytes}

Contents == SeqsUpTo(MaxLen)
NoObject == <<0>>    \* no content holds the byte 0

\* errors.  kind: "nil", "NotFound" (a service error with status 404),
\* "Remote" (any other failure of a remote call), "SizeMismatch",
\* "InvalidRange", "Canceled" (ctx.Err()), "Fn" (returned by a callback),
\* "InvalidFormat" (ParseConfig), "Fatal" (errors.Fatalf of open), "Auth"
\* (no configuration provider), "Client" (no object storage client).
Nil == [kind |-> "nil", wrap |-> ""]
Err(k) == [kind |-> k, wrap |-> ""]
ServiceError(status) ==
  IF status = HTTPNotFound THEN Err("NotFound") ELSE Err("Remote")

\* errors.Wrap: nil stays nil, any other error keeps its cause
Wrap(err, msg) == IF err = Nil THEN Nil ELSE [err EXCEPT !.wrap = msg]

\* -------------------------------------------------------------- key layout
Path == <<"p">>      \* cfg.Prefix, the Path of the backend's DefaultLayout

Handle(t, n) == [Type |-> t, Name |-> n]

NameLen(n) == IF n = "abc" THEN 3 ELSE 2
First2(n) == IF n = "abc" THEN "ab" ELSE n

defaultLayoutPaths(t) ==
  CASE t = "data" -> "data"
    [] t = "keys" -> "keys"
    [] t = "index" -> "index"

s3LayoutPaths(t) ==
  CASE t = "data" -> "data"
    [] t = "keys" -> "key"
    [] t = "index" -> "index"

\* DefaultLayout.Dirname, without the trailing slash path.Join removes again
DefaultDirname(h) ==
  IF h.Type = "data" /\ NameLen(h.Name) > 2
  THEN Path \o <<defaultLayoutPaths(h.Type), First2(h.Name)>>
  ELSE Path \o <<defaultLayoutPaths(h.Type)>>

\* l.Filename(h) of the layout l
LayoutFilename(l, h) ==
  IF l = "default"
  THEN DefaultDirname(h) \o <<h.Name>>
  ELSE Path \o <<s3LayoutPaths(h.Type), h.Name>>

\* be.Filename(h): the backend always holds a DefaultLayout
Filename(h) == LayoutFilename("default", h)

\* be.Basedir(t)
Basedir(t) == Path \o <<defaultLayoutPaths(t)>>

Layouts == {"default", "s3legacy"}

\* ------------------------------------------------------------ caller state
NoFileInfo == [Name |-> "", Size |-> 0]          \* restic.FileInfo{}

NoLoc ==
  [op |-> "none", h |-> Handle("keys", ""), objName |-> <<>>, rd |-> <<>>,
   newname |-> <<>>, length |-> 0, offset |-> 0, bytesRange |-> <<>>,
   l |-> "default", had |-> NoObject, attempt |-> 0,
   prefix |-> <<>>, objects |-> <<>>, idx |-> 0, size |-> 0,
   visited |-> <<>>, stored |-> <<>>]

\* err, fi: what the caller gets.  The other fields record the call: its
\* operation, key and stream, whether one of its remote calls failed for a
\* reason of its own (faulted), whether the object existed when the
\* operation's object call was answered (existed), and saved[key] then.
\* data: the bytes the reader handed to the callback of Load yields.
\* For Rename: the new key, the layout, what the old key held when Rename
\* started (had), and how many Renames with these arguments the caller has
\* made in a row (attempt).  For List: the prefix, the calls of fn so far
\* (visited: the key, the FileInfo passed, whether the context was
\* cancelled at the call, and the error fn returned) and the keys with their sizes that were stored
\* under the prefix when the listing was taken (stored).
NoResult ==
  [op |-> "none", err |-> Nil, fi |-> NoFileInfo, data |-> <<>>,
   objName |-> <<>>, rd |-> <<>>, length |-> 0, offset |-> 0,
   newname |-> <<>>, l |-> "default", had |-> NoObject, attempt |-> 0,
   faulted |-> FALSE, existed |-> FALSE, saved |-> NoObject,
   prefix |-> <<>>, visited |-> <<>>, stored |-> <<>>]

\* the operation of p returns r
Return(p, r) ==
  /\ pc' = [pc EXCEPT ![p] = "idle"]
  /\ result' = [result EXCEPT ![p] = r]

\* what an operation with the locals lc returns when nothing but the error
\* is set
ResultOf(lc, err) ==
  [NoResult EXCEPT !.op = lc.op, !.err = err, !.objName = lc.objName,
                   !.rd = lc.rd, !.length = lc.length,
                   !.offset = lc.offset, !.newname = lc.newname,
                   !.l = lc.l, !.had = lc.had,
                   !.attempt = lc.attempt, !.prefix = lc.prefix,
                   !.visited = lc.visited, !.stored = lc.stored]

Failed(p, err) == ResultOf(loc[p], err)

\* p enters an operation: its locals are set, its last result is dropped
Enter(p, l, at) ==
  /\ pc[p] = "idle"
  /\ pc' = [pc EXCEPT ![p] = at]
  /\ loc' = [loc EXCEPT ![p] = l]
  /\ result' = [result EXCEPT ![p] = NoResult]
  /\ issued' = [issued EXCEPT ![p] = <<>>]

\* p issues the remote call c for key k under the context named by ctx
\* (done: that context was cancelled already) and is answered err, size
Issue(p, c, ctx, k, err, size) ==
  issued' = [issued EXCEPT ![p] =
     Append(@, [call |-> c, ctx |-> ctx, key |-> k,
                done |-> (ctx = "caller" /\ ctxDone[p]),
                err |-> err, size |-> size])]

\* A remote call may fail for reasons of its own (transport, service); it
\* fails for certain when the context it is given is already cancelled.
Faults(p) == IF ctxDone[p] THEN {TRUE} ELSE {FALSE, TRUE}

\* the error of a remote call as the caller p gets it: a call that fails
\* because its context is cancelled fails with the context's error
CtxError(p, err) ==
  IF err.kind = "Remote" /\ ctxDone[p]
  THEN [err EXCEPT !.kind = "Canceled"] ELSE err

\* -------------------------------------------------------- the configuration
\* The strings ParseConfig takes apart are sequences of characters; the
\* other fields of a Config are compared with "" only and are strings.
UserPrincipal == "UserPrincipal"
InstancePrincipal == "InstancePrincipal"
WorkloadPrincipal == "workload"

\* Config{}
ZeroConfig ==
  [Region |-> "", TenancyID |-> "", UserID |-> "", PrivateKeyFile |-> "",
   Fingerprint |-> "", Passphrase |-> "", OCIAuthType |-> "",
   BucketName |-> <<>>, Prefix |-> <<>>, CompartmentOCID |-> "",
   Connections |-> 0]

NewConfig == [ZeroConfig EXCEPT !.Connections = DefaultConnections]

\* "oci:"
Scheme == <<"o", "c", "i", ":">>

\* strings.HasPrefix(s, "oci:")
HasScheme(s) ==
  Len(s) >= Len(Scheme) /\ SubSeq(s, 1, Len(Scheme)) = Scheme

\* the index of the first "/" of s, or 0
SlashIndex(s) ==
  IF \E i \in 1..Len(s) : s[i] = "/"
  THEN CHOOSE i \in 1..Len(s) :
         s[i] = "/" /\ \A j \in 1..(i - 1) : s[j] # "/"
  ELSE 0

\* strings.Cut(s, "/")
Cut(s) ==
  LET i == SlashIndex(s) IN
  IF i = 0 THEN [before |-> s, after |-> <<>>, found |-> FALSE]
  ELSE [before |-> SubSeq(s, 1, i - 1),
        after |-> SubSeq(s, i + 1, Len(s)), found |-> TRUE]

\* the elements of a path: the texts between its slashes
RECURSIVE Elements(_)
Elements(s) ==
  LET c == Cut(s) IN
  IF c.found THEN <<c.before>> \o Elements(c.after) ELSE <<c.before>>

\* the elements joined by slashes
RECURSIVE JoinElements(_)
JoinElements(es) ==
  IF es = <<>> THEN <<>>
  ELSE IF Len(es) = 1 THEN es[1]
  ELSE es[1] \o <<"/">> \o JoinElements(Tail(es))

\* the loop of path.Clean over the elements that are left, with the
\* elements written so far (out) and the number of those that are ".."
\* and cannot be taken back (dotdot)
RECURSIVE CleanLoop(_, _, _, _)
CleanLoop(es, out, dotdot, rooted) ==
  IF es = <<>> THEN out
  ELSE LET e == Head(es) IN
       IF e = <<>> \/ e = <<".">>
       THEN CleanLoop(Tail(es), out, dotdot, rooted)
       ELSE IF e = <<".", ".">>
       THEN IF Len(out) > dotdot
            THEN CleanLoop(Tail(es), SubSeq(out, 1, Len(out) - 1), dotdot,
                           rooted)
            ELSE IF ~rooted
            THEN CleanLoop(Tail(es), Append(out, e), Len(out) + 1, rooted)
            ELSE CleanLoop(Tail(es), out, dotdot, rooted)
       ELSE CleanLoop(Tail(es), Append(out, e), dotdot, rooted)

\* path.Clean
Clean(s) ==
  IF s = <<>> THEN <<".">>
  ELSE LET rooted == s[1] = "/"
           out == JoinElements(CleanLoop(Elements(s), <<>>, 0, rooted))
       IN  IF rooted THEN <<"/">> \o out
           ELSE IF out = <<>> THEN <<".">> ELSE out

\* strings.TrimPrefix(s, "/")
TrimSlash(s) == IF s # <<>> /\ s[1] = "/" THEN Tail(s) ELSE s

\* ParseConfig that keeps the remainder as it is written
ParseConfigUncleaned(s) ==
  IF ~HasScheme(s)
  THEN [cfg |-> ZeroConfig, err |-> Err("InvalidFormat")]
  ELSE LET c == Cut(SubSeq(s, Len(Scheme) + 1, Len(s)))
       IN  [cfg |-> [NewConfig EXCEPT !.BucketName = c.before,
                                      !.Prefix = c.after],
            err |-> Nil]

\* ParseConfig: the config (nil with an error) and the error
ParseConfig(s) ==
  IF ~HasScheme(s)
  THEN [cfg |-> ZeroConfig, err |-> Err("InvalidFormat")]
  ELSE LET c == Cut(SubSeq(s, Len(Scheme) + 1, Len(s)))
           prefix == TrimSlash(Clean(c.after))
       IN  [cfg |-> [NewConfig EXCEPT !.BucketName = c.before,
                                      !.Prefix = prefix],
            err |-> Nil]

\* the values of OCI_AUTH_TYPE that select an auth type
UserPrincipalKey == "user_principal"
InstancePrincipalKey == "instance_principal"
WorkloadKey == "workload"

\* The environment maps the name of a variable, as ApplyEnvironment reads
\* it (with the prefix, but for OCI_AUTH_TYPE), to its value; Unset: the
\* variable is not in the environment.
Unset == "<unset>"

\* os.Getenv
Getenv(env, key) == IF env[key] = Unset THEN "" ELSE env[key]

\* getEnvValuesWithDefault
getEnvValuesWithDefault(env, key, defaultValue) ==
  IF env[key] = Unset THEN defaultValue ELSE env[key]

\* if field == "" { field = os.Getenv(key) }
Overlay(field, env, key) == IF field = "" THEN Getenv(env, key) ELSE field

\* cfg.ApplyEnvironment: the config afterwards
ApplyEnvironment(cfg, env) ==
  LET resourcePrincipal ==
        getEnvValuesWithDefault(env, "OCI_AUTH_TYPE", UserPrincipalKey)
  IN  IF resourcePrincipal = InstancePrincipalKey
      THEN [cfg EXCEPT
              !.OCIAuthType = InstancePrincipal,
              !.CompartmentOCID = Overlay(@, env, "OCI_COMPARTMENT_OCID")]
      ELSE IF resourcePrincipal = WorkloadKey
      THEN [cfg EXCEPT
              !.OCIAuthType = WorkloadPrincipal,
              !.Region = Overlay(@, env, "OCI_REGION")]
      ELSE [cfg EXCEPT
              !.OCIAuthType = UserPrincipal,
              !.Region = Overlay(@, env, "OCI_REGION"),
              !.TenancyID = Overlay(@, env, "OCI_TENANCY"),
              !.UserID = Overlay(@, env, "OCI_USER"),
              !.Fingerprint = Overlay(@, env, "OCI_FINGERPRINT"),
              !.PrivateKeyFile = Overlay(@, env, "OCI_KEY_FILE"),
              !.CompartmentOCID = Overlay(@, env, "OCI_COMPARTMENT_OCID"),
              !.Passphrase = Overlay(@, env, "OCI_PASSPHRASE")]

\* ----------------------------------------------------------- the backend
\* the Backend that open builds: be.cfg.Connections is all the operations
\* of the model read from it beyond the prefix; NoBackend: none was returned
NoBackend == [open |-> FALSE, connections |-> 0]
Backend(cfg) == [open |-> TRUE, connections |-> cfg.Connections]

\* no function without remote calls is being called
NoCall == [fn |-> "none"]

\* -------------------------------------------------------- the remote store
\* answers of head-object for key k
HeadObject(k, fault) ==
  IF fault THEN {[err |-> Err("Remote"), status |-> 0, size |-> 0]}
  ELSE IF bucket[k] # NoObject
       THEN {[err |-> Nil, status |-> 200, size |-> Len(bucket[k])]}
       ELSE {[err |-> ServiceError(HTTPNotFound), status |-> HTTPNotFound,
              size |-> 0],
             [err |-> Nil, status |-> HTTPNotFound, size |-> 0]}

\* what an upload of rd may leave under the key when it reports success:
\* the whole stream, or a silently truncated one
Uploaded(rd) == {SubSeq(rd, 1, n) : n \in 0..Len(rd)}

\* be.IsNotExist
IsNotExist(err) == err.kind = "NotFound"

\* ------------------------------------------------------- getOCINamespace
\* Every operation resolves the namespace before its first object call.

\* an operation that goes on whatever getOCINamespace returned
AfterNamespaceGoesOn(err) == "go on"

\* what an operation does once getOCINamespace has returned err
AfterNamespace(err) == IF err # Nil THEN "fail" ELSE "go on"

GetOCINamespace(p) ==
  /\ pc[p] = "ns"
  /\ \E fault \in Faults(p) :
       /\ Issue(p, "GetNamespace", "caller", <<>>,
                IF fault THEN Err("Remote") ELSE Nil, 0)
       /\ IF AfterNamespace(IF fault THEN Err("Remote") ELSE Nil) = "fail"
          THEN Return(p, [Failed(p, Wrap(CtxError(p, Err("Remote")),
                                         "unable to fetch namespace"))
                            EXCEPT !.faulted = TRUE])
          ELSE /\ pc' = [pc EXCEPT ![p] = loc[p].op]
               /\ UNCHANGED result
  /\ UNCHANGED <<bucket, loc, ctxDone, saved, exists, be, call>>

\* ------------------------------------------------------------------- Save
SaveStart(p, H) ==
  \E h \in H, rd \in Contents :
    /\ Enter(p, [NoLoc EXCEPT !.op = "Save", !.h = h,
                              !.objName = Filename(h), !.rd = rd], "ns")
    /\ UNCHANGED <<bucket, ctxDone, saved, exists, be, call>>

\* Save that fetches the metadata whatever the upload returned
AfterUploadChecksAnyway(err) == "check"

\* what Save does once the upload has returned err: the sanity check, or
\* the return of the error
AfterUpload(err) == IF err = Nil THEN "check" ELSE "fail"

\* uploadManager.UploadStream; the log keeps the number of bytes it stored
SaveUpload(p) ==
  /\ pc[p] = "Save"
  /\ \E fault \in Faults(p) :
       LET err == IF fault THEN Err("Remote") ELSE Nil
           k == loc[p].objName
       IN  IF AfterUpload(err) = "fail"
           THEN /\ Issue(p, "UploadStream", "caller", k, err, 0)
                /\ Return(p, [Failed(p, Wrap(err,
                                             "client.UploadStreamRequest"))
                                EXCEPT !.faulted = TRUE])
                /\ UNCHANGED <<bucket, saved>>
           ELSE \E stored \in
                     (IF fault THEN {bucket[k]} ELSE Uploaded(loc[p].rd)) :
                  /\ Issue(p, "UploadStream", "caller", k, err,
                           IF fault THEN 0 ELSE Len(stored))
                  /\ bucket' = [bucket EXCEPT ![k] = stored]
                  /\ saved' = [saved EXCEPT ![k] =
                                 IF fault THEN @ ELSE NoObject]
                  /\ pc' = [pc EXCEPT ![p] = "SaveCheck"]
                  /\ UNCHANGED result
  /\ UNCHANGED <<loc, ctxDone, exists, be, call>>

\* Save without the comparison of the sizes
SaveVerdictNoCheck(rd, r) ==
  IF r.err # Nil THEN Wrap(r.err, "client.fetch getResponse")
  ELSE Wrap(Nil, "client.UploadStreamRequest")

\* what Save returns for the answer r of the metadata fetch
SaveVerdict(rd, r) ==
  IF r.err # Nil THEN Wrap(r.err, "client.fetch getResponse")
  ELSE IF r.size # Len(rd) THEN Err("SizeMismatch")
  ELSE Wrap(Nil, "client.UploadStreamRequest")

\* the sanity check: client.HeadObject, then the comparison of the sizes
SaveCheck(p) ==
  /\ pc[p] = "SaveCheck"
  /\ \E fault \in Faults(p) : \E r \in HeadObject(loc[p].objName, fault) :
       LET err == SaveVerdict(loc[p].rd, r) IN
       /\ Issue(p, "HeadObject", "caller", loc[p].objName, r.err, r.size)
       /\ Return(p, [Failed(p, err) EXCEPT
                       !.fi = [Name |-> "", Size |-> r.size],
                       !.faulted = fault,
                       !.existed = (bucket[loc[p].objName] # NoObject)])
       /\ saved' = [saved EXCEPT ![loc[p].objName] =
                      IF err = Nil THEN loc[p].rd ELSE @]
  /\ UNCHANGED <<bucket, loc, ctxDone, exists, be, call>>

\* ------------------------------------------------------------------- Stat
StatStart(p, H) ==
  \E h \in H :
    /\ Enter(p, [NoLoc EXCEPT !.op = "Stat", !.h = h,
                              !.objName = Filename(h)], "ns")
    /\ UNCHANGED <<bucket, ctxDone, saved, exists, be, call>>

\* a Stat that names the file after the first element of the key
LastSegmentIsFirst(objName) == objName[1]

\* strings.Split(objName, "/") and its last element
LastSegment(objName) == objName[Len(objName)]

\* what Stat returns for the answer r of the metadata fetch
StatVerdict(objName, r) ==
  IF r.err # Nil
  THEN [err |-> Wrap(r.err, "Stat"), fi |-> NoFileInfo]
  ELSE IF r.status = HTTPNotFound
  THEN [err |-> Wrap(r.err, "File not found"), fi |-> NoFileInfo]
  ELSE [err |-> Nil,
        fi |-> [Name |-> LastSegment(objName), Size |-> r.size]]

StatHead(p) ==
  /\ pc[p] = "Stat"
  /\ \E fault \in Faults(p) : \E r \in HeadObject(loc[p].objName, fault) :
       LET v == StatVerdict(loc[p].objName, r) IN
       /\ Issue(p, "HeadObject", "caller", loc[p].objName, r.err, r.size)
       /\ Return(p, [Failed(p, v.err) EXCEPT
                    !.fi = v.fi, !.faulted = fault,
                    !.existed = (bucket[loc[p].objName] # NoObject),
                    !.saved = saved[loc[p].objName]])
  /\ UNCHANGED <<bucket, loc, ctxDone, saved, exists, be, call>>

\* ----------------------------------------------------------------- Remove
RemoveStart(p, H) ==
  \E h \in H :
    /\ Enter(p, [NoLoc EXCEPT !.op = "Remove", !.h = h,
                              !.objName = Filename(h)], "ns")
    /\ UNCHANGED <<bucket, ctxDone, saved, exists, be, call>>

\* deleteObject: the error of client.DeleteObject for key k
DeleteObjectErr(k, fault) ==
  IF fault THEN Err("Remote")
  ELSE IF bucket[k] = NoObject THEN ServiceError(HTTPNotFound)
  ELSE Nil

\* a delete that reports success and removes nothing
DeleteObjectKeeps(k, fault) == bucket

\* the bucket after deleteObject of key k
DeleteObject(k, fault) ==
  IF fault THEN bucket ELSE [bucket EXCEPT ![k] = NoObject]

\* Remove without the not-found case
RemoveVerdictStrict(err) == Wrap(err, "client.RemoveObject")

\* what Remove returns for the error err of deleteObject
RemoveVerdict(err) ==
  Wrap(IF IsNotExist(err) THEN Nil ELSE err, "client.RemoveObject")

RemoveDelete(p) ==
  /\ pc[p] = "Remove"
  /\ \E fault \in Faults(p) :
       /\ Issue(p, "DeleteObject", "caller", loc[p].objName,
                DeleteObjectErr(loc[p].objName, fault), 0)
       /\ Return(p, [Failed(p, RemoveVerdict(
                               DeleteObjectErr(loc[p].objName, fault)))
                       EXCEPT !.faulted = fault,
                              !.existed =
                                 (bucket[loc[p].objName] # NoObject)])
       /\ bucket' = DeleteObject(loc[p].objName, fault)
       /\ saved' = [saved EXCEPT ![loc[p].objName] = IF fault THEN @ ELSE NoObject]
  /\ UNCHANGED <<loc, ctxDone, exists, be, call>>

\* ------------------------------------------------------------------- Load
\* the tokens of a range string: a piece of text, or the digits of a number
Lit(s) == [s |-> s, n |-> 0]
Num(n) == [s |-> "#", n |-> n]
IsNum(t) == t.s = "#"

\* fmt.Sprintf("%d", n): a minus sign, then the digits
Dec(n) == IF n < 0 THEN <<Lit("-"), Num(-n)>> ELSE <<Num(n)>>

\* getRange with the end of a closed range one too far
getRangeOffByOne(start, end) ==
  IF start = 0 /\ end < 0
  THEN [range |-> <<Lit("bytes=")>> \o Dec(end), err |-> Nil]
  ELSE IF 0 < start /\ end = 0
  THEN [range |-> <<Lit("bytes=")>> \o Dec(start) \o <<Lit("-")>>,
        err |-> Nil]
  ELSE IF 0 <= start /\ start <= end
  THEN [range |-> <<Lit("bytes=")>> \o Dec(start) \o <<Lit("-")>>
                    \o Dec(end + 1),
        err |-> Nil]
  ELSE [range |-> <<Lit("bytes="), Lit("-"), Num(1)>>,
        err |-> Err("InvalidRange")]

\* getRange that clamps a closed range whose end is before its start
getRangeClamped(start, end) ==
  IF start = 0 /\ end < 0
  THEN [range |-> <<Lit("bytes=")>> \o Dec(end), err |-> Nil]
  ELSE IF 0 < start /\ end = 0
  THEN [range |-> <<Lit("bytes=")>> \o Dec(start) \o <<Lit("-")>>,
        err |-> Nil]
  ELSE IF 0 <= start /\ start <= end
  THEN [range |-> <<Lit("bytes=")>> \o Dec(start) \o <<Lit("-")>>
                    \o Dec(end),
        err |-> Nil]
  ELSE IF 0 < end /\ end < start
  THEN [range |-> <<Lit("bytes=")>> \o Dec(start) \o <<Lit("-")>>
                    \o Dec(start),
        err |-> Nil]
  ELSE [range |-> <<Lit("bytes="), Lit("-"), Num(1)>>,
        err |-> Err("InvalidRange")]

\* the first case of getRange: the last -end bytes
caseLastBytes(start, end) == start = 0 /\ end < 0

\* the second case of getRange: everything from start on
caseFromStart(start, end) == 0 < start /\ end = 0

\* a third case that takes any end that is not negative
caseStartToEndAnyOrder(start, end) == 0 <= start /\ 0 <= end

\* the third case of getRange: everything from start to end
caseStartToEnd(start, end) == 0 <= start /\ start <= end

\* getRange: the range string and the error; the cases are tried in order
getRange(start, end) ==
  IF caseLastBytes(start, end)
  THEN [range |-> <<Lit("bytes=")>> \o Dec(end), err |-> Nil]
  ELSE IF caseFromStart(start, end)
  THEN [range |-> <<Lit("bytes=")>> \o Dec(start) \o <<Lit("-")>>,
        err |-> Nil]
  ELSE IF caseStartToEnd(start, end)
  THEN [range |-> <<Lit("bytes=")>> \o Dec(start) \o <<Lit("-")>>
                    \o Dec(end),
        err |-> Nil]
  ELSE [range |-> <<Lit("bytes="), Lit("-"), Num(1)>>,
        err |-> Err("InvalidRange")]

\* openReader that goes on when getRange returned an error
OpenReaderRangeUnchecked(length, offset) ==
  IF length > 0
  THEN [range |-> getRange(offset, offset + length - 1).range, err |-> Nil]
  ELSE IF offset > 0
  THEN [range |-> getRange(offset, 0).range, err |-> Nil]
  ELSE [range |-> <<>>, err |-> Nil]

\* openReader that takes the end of the range as exclusive
OpenReaderRangeHalfOpen(length, offset) ==
  IF length > 0 THEN getRange(offset, offset + length)
  ELSE IF offset > 0 THEN getRange(offset, 0)
  ELSE [range |-> <<>>, err |-> Nil]

\* openReader, up to its first remote call: bytesRange and err
OpenReaderRange(length, offset) ==
  IF length > 0 THEN getRange(offset, offset + length - 1)
  ELSE IF offset > 0 THEN getRange(offset, 0)
  ELSE [range |-> <<>>, err |-> Nil]

\* the remote store reads a range header: the first and last index
\* (0-based) of the bytes of a content of n bytes it selects;
\* first > last: the range cannot be satisfied
RangeOf(range, n) ==
  CASE range = <<>> -> [first |-> 0, last |-> n - 1]
    [] /\ Len(range) = 4
       /\ IsNum(range[2]) /\ range[3] = Lit("-") /\ IsNum(range[4])
       /\ range[2].n <= range[4].n ->
         [first |-> range[2].n,
          last |-> IF range[4].n < n - 1 THEN range[4].n ELSE n - 1]
    [] Len(range) = 3 /\ IsNum(range[2]) /\ range[3] = Lit("-") ->
         [first |-> range[2].n, last |-> n - 1]
    [] Len(range) = 3 /\ range[2] = Lit("-") /\ IsNum(range[3]) ->
         [first |-> IF range[3].n < n THEN n - range[3].n ELSE 0,
          last |-> n - 1]
    [] OTHER -> [first |-> 1, last |-> 0]

\* answers of get-object for key k with the range header range
GetObject(k, range, fault) ==
  IF fault THEN [err |-> Err("Remote"), content |-> <<>>]
  ELSE IF bucket[k] = NoObject
  THEN [err |-> ServiceError(HTTPNotFound), content |-> <<>>]
  ELSE LET r == RangeOf(range, Len(bucket[k])) IN
       IF range # <<>> /\ r.first > r.last
       THEN [err |-> ServiceError(416), content |-> <<>>]
       ELSE [err |-> Nil,
             content |-> SubSeq(bucket[k], r.first + 1, r.last + 1)]

\* backend.DefaultLoad: the error of openReader, else the error of fn
DefaultLoad(openErr, fnErr) == IF openErr # Nil THEN openErr ELSE fnErr

\* Load: backend.DefaultLoad calls openReader, which computes the range
\* and returns its error before any remote call
LoadStart(p, H) ==
  \E h \in H, length \in -1..MaxLen, offset \in -1..MaxLen :
    LET rg == OpenReaderRange(length, offset)
        l == [NoLoc EXCEPT !.op = "Load", !.h = h, !.objName = Filename(h),
                           !.length = length, !.offset = offset,
                           !.bytesRange = rg.range]
    IN  /\ pc[p] = "idle"
        /\ issued' = [issued EXCEPT ![p] = <<>>]
        /\ loc' = [loc EXCEPT ![p] = l]
        /\ IF rg.err # Nil
           THEN Return(p, [NoResult EXCEPT !.op = "Load",
                             !.err = DefaultLoad(rg.err, Nil),
                             !.objName = l.objName, !.length = length,
                             !.offset = offset])
           ELSE /\ pc' = [pc EXCEPT ![p] = "ns"]
                /\ result' = [result EXCEPT ![p] = NoResult]
        /\ UNCHANGED <<bucket, ctxDone, saved, exists, be, call>>

\* client.GetObject, then DefaultLoad hands the reader to fn, whose error
\* (if any) is the result of Load
LoadGetObject(p) ==
  /\ pc[p] = "Load"
  /\ \E fault \in Faults(p), fnErr \in {Nil, Err("Fn")} :
       LET r == GetObject(loc[p].objName, loc[p].bytesRange, fault) IN
       /\ Issue(p, "GetObject", "caller", loc[p].objName, r.err,
                Len(r.content))
       /\ Return(p, [Failed(p, DefaultLoad(r.err, fnErr)) EXCEPT
                       !.data = r.content, !.faulted = fault,
                       !.existed = (bucket[loc[p].objName] # NoObject),
                       !.saved = saved[loc[p].objName]])
  /\ UNCHANGED <<bucket, loc, ctxDone, saved, exists, be, call>>

\* ----------------------------------------------------------------- Rename
\* Rename that takes no two names for equal
SameNameNever(oldname, newname) == FALSE

\* oldname == newname
SameName(oldname, newname) == oldname = newname

\* Rename up to its first remote call: equal names return success at once
RenameStart(p, H) ==
  \E h \in H, l \in Layouts :
    LET oldname == Filename(h)
        newname == LayoutFilename(l, h)
        again == /\ result[p].op = "Rename"
                 /\ result[p].objName = oldname
                 /\ result[p].newname = newname
        lc == [NoLoc EXCEPT !.op = "Rename", !.h = h, !.objName = oldname,
                            !.newname = newname, !.l = l,
                            !.had = bucket[oldname],
                            !.attempt = IF again /\ result[p].attempt = 1
                                        THEN 2 ELSE 1]
    IN  /\ pc[p] = "idle"
        /\ issued' = [issued EXCEPT ![p] = <<>>]
        /\ loc' = [loc EXCEPT ![p] = lc]
        /\ IF SameName(oldname, newname)
           THEN Return(p, [NoResult EXCEPT !.op = "Rename", !.err = Nil,
                             !.objName = oldname, !.newname = newname,
                             !.l = l, !.had = lc.had,
                             !.attempt = lc.attempt])
           ELSE /\ pc' = [pc EXCEPT ![p] = "ns"]
                /\ result' = [result EXCEPT ![p] = NoResult]
        /\ UNCHANGED <<bucket, ctxDone, saved, exists, be, call>>

\* the error of client.CopyObject from key src to key dst
CopyObjectErr(src, dst, fault) ==
  IF fault THEN Err("Remote")
  ELSE IF bucket[src] = NoObject THEN ServiceError(HTTPNotFound)
  ELSE Nil

\* a copy whose destination is the source key
CopyObjectOntoSource(src, dst, fault) == bucket

\* the bucket after client.CopyObject from key src to key dst
CopyObject(src, dst, fault) ==
  IF fault \/ bucket[src] = NoObject THEN bucket
  ELSE [bucket EXCEPT ![dst] = bucket[src]]

\* Rename without the not-found case of the copy
AfterCopyNoRetry(err) ==
  IF err # Nil THEN "fail" ELSE "delete"

\* Rename that goes on to the delete when the copy answered not-found
AfterCopyDeletesOnNotFound(err) ==
  IF err # Nil /\ ~IsNotExist(err) THEN "fail" ELSE "delete"

\* Rename that deletes the old key whatever other error the copy returned
AfterCopyDeletesAnyway(err) ==
  IF err # Nil /\ IsNotExist(err) THEN "success" ELSE "delete"

\* what Rename does with the error of the copy: return success, return the
\* error, or go on to delete the old key
AfterCopy(err) ==
  IF err # Nil /\ IsNotExist(err) THEN "success"
  ELSE IF err # Nil THEN "fail"
  ELSE "delete"

RenameCopy(p) ==
  /\ pc[p] = "Rename"
  /\ \E fault \in Faults(p) :
       LET err == CopyObjectErr(loc[p].objName, loc[p].newname, fault)
           todo == AfterCopy(err)
       IN  /\ Issue(p, "CopyObject", "caller", loc[p].objName, err, 0)
           /\ bucket' = CopyObject(loc[p].objName, loc[p].newname, fault)
           /\ saved' = [saved EXCEPT ![loc[p].newname] =
                          IF err = Nil THEN NoObject ELSE @]
           /\ IF todo = "delete"
              THEN /\ pc' = [pc EXCEPT ![p] = "RenameDelete"]
                   /\ UNCHANGED result
              ELSE Return(p, [Failed(p, IF todo = "success" THEN Nil ELSE err)
                                EXCEPT !.faulted = fault])
  /\ UNCHANGED <<loc, ctxDone, exists, be, call>>

\* deleteObject of the old key; its error is the result of Rename
RenameDelete(p) ==
  /\ pc[p] = "RenameDelete"
  /\ \E fault \in Faults(p) :
       LET err == DeleteObjectErr(loc[p].objName, fault) IN
       /\ Issue(p, "DeleteObject", "caller", loc[p].objName, err, 0)
       /\ bucket' = DeleteObject(loc[p].objName, fault)
       /\ saved' = [saved EXCEPT ![loc[p].objName] =
                      IF fault THEN @ ELSE NoObject]
       /\ Return(p, [Failed(p, err) EXCEPT !.faulted = fault])
  /\ UNCHANGED <<loc, ctxDone, exists, be, call>>

\* the process of caller p dies in the middle of an operation; what the
\* operation has done to the bucket stays
Crash(p) ==
  /\ pc[p] # "idle"
  /\ Return(p, [Failed(p, Nil) EXCEPT !.op = "Crashed"])
  /\ UNCHANGED <<bucket, loc, ctxDone, issued, saved, exists, be, call>>

\* -------------------------------------------------------- Open and Create
\* what open meets outside the config: everything works ("ok"), or the
\* named step fails when open comes to it
Worlds == {"ok", "setenv", "keyfile", "provider", "client"}

\* open: the backend and the error
open(cfg, w) ==
  LET fatal == [be |-> NoBackend, err |-> Err("Fatal")]
      auth == cfg.OCIAuthType
  IN  IF auth = InstancePrincipal /\ cfg.CompartmentOCID = "" THEN fatal
      ELSE IF auth = WorkloadPrincipal /\ (cfg.Region = "" \/ w = "setenv")
      THEN fatal
      ELSE IF /\ auth = UserPrincipal
              /\ \/ cfg.Region = "" \/ cfg.TenancyID = ""
                 \/ cfg.UserID = "" \/ cfg.Fingerprint = ""
                 \/ cfg.PrivateKeyFile = "" \/ cfg.CompartmentOCID = ""
                 \/ w = "keyfile"
      THEN fatal
      ELSE IF auth \in {InstancePrincipal, WorkloadPrincipal}
              /\ w = "provider"
      THEN [be |-> NoBackend, err |-> Err("Auth")]
      ELSE IF w = "client" THEN [be |-> NoBackend, err |-> Err("Client")]
      ELSE [be |-> Backend(cfg), err |-> Nil]

\* Open: open and nothing else; the context is not used
Open(p) ==
  /\ pc[p] = "idle"
  /\ call.fn = "open"
  /\ \E w \in Worlds :
       LET r == open(call.cfg, w) IN
       /\ be' = [be EXCEPT ![p] = r.be]
       /\ Return(p, [NoResult EXCEPT !.op = "Open", !.err = r.err,
                                     !.existed = exists])
  /\ loc' = [loc EXCEPT ![p] = [NoLoc EXCEPT !.op = "Open"]]
  /\ issued' = [issued EXCEPT ![p] = <<>>]
  /\ UNCHANGED <<bucket, ctxDone, saved, exists, call>>

\* Create up to its first remote call: open, whose error is wrapped
CreateStart(p) ==
  /\ pc[p] = "idle"
  /\ call.fn = "open"
  /\ \E w \in Worlds :
       LET r == open(call.cfg, w) IN
       IF r.err # Nil
       THEN Return(p, [NoResult EXCEPT !.op = "Create",
                                      !.err = Wrap(r.err, "open"),
                                      !.existed = exists])
       ELSE /\ pc' = [pc EXCEPT ![p] = "ns"]
            /\ result' = [result EXCEPT ![p] = NoResult]
  /\ loc' = [loc EXCEPT ![p] = [NoLoc EXCEPT !.op = "Create"]]
  /\ be' = [be EXCEPT ![p] = NoBackend]
  /\ issued' = [issued EXCEPT ![p] = <<>>]
  /\ ctxDone' = [ctxDone EXCEPT ![p] = FALSE]
  /\ UNCHANGED <<bucket, saved, exists, call>>

\* answers of get-bucket; raw: the answer carries an HTTP response
\* (response.RawResponse is not nil)
GetBucket(fault) ==
  IF fault
  THEN {[err |-> Err("Remote"), status |-> 500, raw |-> TRUE],
        [err |-> Err("Remote"), status |-> 0, raw |-> FALSE]}
  ELSE IF exists
  THEN {[err |-> Nil, status |-> 200, raw |-> TRUE]}
  ELSE {[err |-> ServiceError(HTTPNotFound), status |-> HTTPNotFound,
         raw |-> TRUE]}

\* what ensureBucketExists does with the answer r of get-bucket: report
\* that the bucket exists, create it, or panic on the nil RawResponse
EnsureBucketExists(r) ==
  IF r.err # Nil
  THEN IF ~r.raw THEN "panic"
       ELSE IF r.status = HTTPNotFound THEN "create" ELSE "exists"
  ELSE "exists"

\* ensureBucketExists: client.GetBucket, under context.Background()
CreateGetBucket(p) ==
  /\ pc[p] = "Create"
  /\ \E fault \in BOOLEAN : \E r \in GetBucket(fault) :
       LET todo == EnsureBucketExists(r) IN
       /\ Issue(p, "GetBucket", "background", <<>>, r.err, 0)
       /\ IF todo = "create"
          THEN /\ pc' = [pc EXCEPT ![p] = "CreateBucket"]
               /\ UNCHANGED <<result, be>>
          ELSE IF todo = "panic"
          THEN /\ Return(p, [Failed(p, Nil) EXCEPT
                               !.op = "Panicked", !.faulted = TRUE,
                               !.existed = exists])
               /\ UNCHANGED be
          ELSE /\ Return(p, [Failed(p, Nil) EXCEPT
                               !.faulted = fault, !.existed = exists])
               /\ be' = [be EXCEPT ![p] = Backend(call.cfg)]
  /\ UNCHANGED <<bucket, loc, ctxDone, saved, exists, call>>

\* objectstorage.CreateBucketDetailsPublicAccessTypeNopublicaccess
NoPublicAccess == "NoPublicAccess"

\* the request of createBucket: the name, the compartment, the access type
CreateBucketRequest(cfg) ==
  <<cfg.BucketName, cfg.CompartmentOCID, NoPublicAccess>>

\* createBucket: client.CreateBucket, whose error is the result of Create
CreateCreateBucket(p) ==
  /\ pc[p] = "CreateBucket"
  /\ \E fault \in Faults(p) :
       LET err == IF fault THEN Err("Remote") ELSE Nil IN
       /\ Issue(p, "CreateBucket", "caller", CreateBucketRequest(call.cfg),
                err, 0)
       /\ Return(p, [Failed(p, err) EXCEPT !.faulted = fault,
                                           !.existed = exists])
       /\ exists' = (exists \/ ~fault)
       /\ be' = [be EXCEPT ![p] =
                   IF fault THEN NoBackend ELSE Backend(call.cfg)]
  /\ UNCHANGED <<bucket, loc, ctxDone, saved, call>>

\* ------------------------------------------------------------------- List
\* every key a bucket of the model may hold, in the order of the listing
\* (lexicographic by the key's text)
KeyOrder ==
  << <<"p", "data", "ab", "abc">>,
     <<"p", "key", "k1">>,
     <<"p", "keys", "">>,
     <<"p", "keys", "k1">>,
     <<"p", "keys", "k2">>,
     <<"p", "keys", "k3">> >>

\* strings.HasPrefix(key, prefix), for a prefix that ends with a slash
\* (dir: the segments of the prefix before that slash)
HasPrefix(key, dir) ==
  Len(key) > Len(dir) /\ SubSeq(key, 1, Len(dir)) = dir

\* strings.TrimPrefix(key, prefix) of a key that has the prefix
TrimPrefix(key, dir) == SubSeq(key, Len(dir) + 1, Len(key))

\* path.Base(name): trailing slashes dropped, then the last element
RECURSIVE PathBase(_)
PathBase(name) ==
  IF name = <<>> THEN "."
  ELSE IF name[Len(name)] = ""
       THEN IF Len(name) = 1 THEN "/"
            ELSE PathBase(SubSeq(name, 1, Len(name) - 1))
       ELSE name[Len(name)]

RECURSIVE SelectKeys(_, _)
SelectKeys(keys, dir) ==
  IF keys = <<>> THEN <<>>
  ELSE LET k == Head(keys) IN
       IF k \in DOMAIN bucket /\ bucket[k] # NoObject /\ HasPrefix(k, dir)
       THEN <<k>> \o SelectKeys(Tail(keys), dir)
       ELSE SelectKeys(Tail(keys), dir)

\* the objects stored under the prefix, in the order of the listing
StoredUnder(dir) == SelectKeys(KeyOrder, dir)

\* client.ListObjects: one page of the listing under the prefix
ListObjects(dir) ==
  LET all == StoredUnder(dir) IN
  IF Len(all) <= PageLimit THEN all ELSE SubSeq(all, 1, PageLimit)

\* the loop of List skips the entries whose name is empty: the index of the
\* first entry from i on that the loop body handles (past the end: none)
RECURSIVE NextEntry(_, _, _)
NextEntry(objects, dir, i) ==
  IF i > Len(objects) THEN i
  ELSE IF TrimPrefix(objects[i], dir) = <<"">>
       THEN NextEntry(objects, dir, i + 1)
       ELSE i

\* ctx.Err()
CtxErr(p) == IF ctxDone[p] THEN Err("Canceled") ELSE Nil

ListStart(p, T) ==
  \E t \in T :
    /\ Enter(p, [NoLoc EXCEPT !.op = "List", !.prefix = Basedir(t)], "ns")
    /\ ctxDone' = [ctxDone EXCEPT ![p] = FALSE]
    /\ UNCHANGED <<bucket, saved, exists, be, call>>

\* List, with the locals lc, goes on with the entry at index i, or is
\* through with the listing and returns ctx.Err()
ListGoOn(p, lc, i) ==
  IF i <= Len(lc.objects)
  THEN /\ pc' = [pc EXCEPT ![p] = "ListHead"]
       /\ loc' = [loc EXCEPT ![p] = [lc EXCEPT !.idx = i]]
       /\ UNCHANGED result
  ELSE /\ Return(p, ResultOf(lc, CtxErr(p)))
       /\ loc' = [loc EXCEPT ![p] = lc]

\* the keys stored under the prefix, each with its size
StoredSizes(dir) ==
  LET all == StoredUnder(dir) IN
  [j \in 1..Len(all) |-> [key |-> all[j], size |-> Len(bucket[all[j]])]]

\* client.ListObjects
ListListObjects(p) ==
  /\ pc[p] = "List"
  /\ \E fault \in Faults(p) :
       LET err == IF fault THEN CtxError(p, Err("Remote")) ELSE Nil
           objects == ListObjects(loc[p].prefix)
       IN  /\ Issue(p, "ListObjects", "caller", loc[p].prefix, err, 0)
           /\ IF fault
              THEN /\ Return(p, [Failed(p, err) EXCEPT !.faulted = TRUE])
                   /\ UNCHANGED loc
              ELSE ListGoOn(p, [loc[p] EXCEPT
                                  !.objects = objects,
                                  !.stored = StoredSizes(loc[p].prefix)],
                            NextEntry(objects, loc[p].prefix, 1))
  /\ UNCHANGED <<bucket, ctxDone, saved, exists, be, call>>

\* client.HeadObject of the entry
ListHead(p) ==
  /\ pc[p] = "ListHead"
  /\ LET key == loc[p].objects[loc[p].idx] IN
     \E fault \in Faults(p) : \E r \in HeadObject(key, fault) :
       LET err == CtxError(p, r.err) IN
       /\ Issue(p, "HeadObject", "caller", key, err, r.size)
       /\ IF err # Nil
          THEN /\ Return(p, [Failed(p, err) EXCEPT !.faulted = fault])
               /\ UNCHANGED loc
          ELSE /\ pc' = [pc EXCEPT ![p] = "ListDispatch"]
               /\ loc' = [loc EXCEPT ![p].size = r.size]
               /\ UNCHANGED result
  /\ UNCHANGED <<bucket, ctxDone, saved, exists, be, call>>

\* List without the check of the context before fn is called
ErrBeforeFnUnchecked(p) == Nil

\* the check of the context before fn is called
ErrBeforeFn(p) == CtxErr(p)

\* the FileInfo is built, the context is checked, fn is called
ListDispatch(p) ==
  /\ pc[p] = "ListDispatch"
  /\ LET key == loc[p].objects[loc[p].idx]
         fi == [Name |-> PathBase(TrimPrefix(key, loc[p].prefix)),
                Size |-> loc[p].size]
     IN  IF ErrBeforeFn(p) # Nil
         THEN /\ Return(p, Failed(p, ErrBeforeFn(p)))
              /\ UNCHANGED loc
         ELSE /\ pc' = [pc EXCEPT ![p] = "ListFn"]
              /\ loc' = [loc EXCEPT ![p].visited =
                           Append(@, [key |-> key, fi |-> fi,
                                      done |-> ctxDone[p], err |-> Nil])]
              /\ UNCHANGED result
  /\ UNCHANGED <<bucket, ctxDone, issued, saved, exists, be, call>>

\* List that goes on to the next entry when fn returned an error
AfterFnGoesOn(p, fnErr) == CtxErr(p)

\* the error that ends List once fn has returned fnErr: the error of fn,
\* else the error of the context
AfterFn(p, fnErr) == IF fnErr # Nil THEN fnErr ELSE CtxErr(p)

\* fn returns; its error ends List, then the context is checked again
ListFn(p) ==
  /\ pc[p] = "ListFn"
  /\ \E fnErr \in {Nil, Err("Fn")} :
       LET lc == [loc[p] EXCEPT !.visited[Len(loc[p].visited)].err = fnErr]
       IN  IF AfterFn(p, fnErr) # Nil
           THEN /\ Return(p, ResultOf(lc, AfterFn(p, fnErr)))
                /\ loc' = [loc EXCEPT ![p] = lc]
           ELSE ListGoOn(p, lc,
                         NextEntry(lc.objects, lc.prefix, lc.idx + 1))
  /\ UNCHANGED <<bucket, ctxDone, issued, saved, exists, be, call>>

\* the caller cancels the context of the operation that p runs
Cancel(p) ==
  /\ pc[p] # "idle"
  /\ ~ctxDone[p]
  /\ ctxDone' = [ctxDone EXCEPT ![p] = TRUE]
  /\ UNCHANGED <<bucket, pc, loc, result, issued, saved, exists, be, call>>

\* ------------------------------------------------- one caller, one handle
\* Save, Stat and Remove of one key handle, by one caller after the other.
StoreHandles == {Handle("keys", "k1")}
StoreKeys == {Filename(h) : h \in StoreHandles}

Init ==
  /\ bucket \in [StoreKeys -> Contents \cup {NoObject}]
  /\ pc = [p \in Procs |-> "idle"]
  /\ loc = [p \in Procs |-> NoLoc]
  /\ result = [p \in Procs |-> NoResult]
  /\ ctxDone = [p \in Procs |-> FALSE]
  /\ issued = [p \in Procs |-> <<>>]
  /\ saved = [k \in StoreKeys |-> NoObject]
  /\ exists = TRUE
  /\ be = [p \in Procs |-> Backend(NewConfig)]
  /\ call = NoCall

Next ==
  \/ SaveStart(1, StoreHandles)
  \/ StatStart(1, StoreHandles)
  \/ RemoveStart(1, StoreHandles)
  \/ LoadStart(1, StoreHandles)
  \/ GetOCINamespace(1)
  \/ SaveUpload(1)
  \/ SaveCheck(1)
  \/ StatHead(1)
  \/ RemoveDelete(1)
  \/ LoadGetObject(1)

Spec == Init /\ [][Next]_vars

\* ------------------------------------------------ one caller that renames
\* Rename of one handle to either layout, retried, with crashes; the bucket
\* starts with any content under the old and the new key.
RenameHandles == {Handle("keys", "k1")}
RenameKeys == {LayoutFilename(l, h) : l \in Layouts, h \in RenameHandles}

InitRename ==
  /\ bucket \in [RenameKeys -> Contents \cup {NoObject}]
  /\ pc = [p \in Procs |-> "idle"]
  /\ loc = [p \in Procs |-> NoLoc]
  /\ result = [p \in Procs |-> NoResult]
  /\ ctxDone = [p \in Procs |-> FALSE]
  /\ issued = [p \in Procs |-> <<>>]
  /\ saved = [k \in RenameKeys |-> NoObject]
  /\ exists = TRUE
  /\ be = [p \in Procs |-> Backend(NewConfig)]
  /\ call = NoCall

NextRename ==
  \/ RenameStart(1, RenameHandles)
  \/ GetOCINamespace(1)
  \/ RenameCopy(1)
  \/ RenameDelete(1)
  \/ Crash(1)

SpecRename == InitRename /\ [][NextRename]_vars

\* -------------------------------------------------- one caller that lists
\* List of the key files and of the data files, with cancellation; the
\* bucket starts with any of its keys holding an object of one or two bytes.
ListTypes == {"keys", "data"}
ListKeys == {KeyOrder[i] : i \in 1..Len(KeyOrder)}

InitList ==
  /\ bucket \in [ListKeys -> {NoObject, <<1>>, <<1, 2>>}]
  /\ pc = [p \in Procs |-> "idle"]
  /\ loc = [p \in Procs |-> NoLoc]
  /\ result = [p \in Procs |-> NoResult]
  /\ ctxDone = [p \in Procs |-> FALSE]
  /\ issued = [p \in Procs |-> <<>>]
  /\ saved = [k \in ListKeys |-> NoObject]
  /\ exists = TRUE
  /\ be = [p \in Procs |-> Backend(NewConfig)]
  /\ call = NoCall

NextList ==
  \/ ListStart(1, ListTypes)
  \/ GetOCINamespace(1)
  \/ ListListObjects(1)
  \/ ListHead(1)
  \/ ListDispatch(1)
  \/ ListFn(1)
  \/ Cancel(1)

SpecList == InitList /\ [][NextList]_vars

\* ------------------------------ one caller that lists, one that removes
\* Caller 1 lists the key files while caller 2 removes key files.
RemovedHandles == {Handle("keys", "k1"), Handle("keys", "k2")}

InitListRemove ==
  /\ bucket \in [ListKeys -> {NoObject, <<1>>}]
  /\ pc = [p \in Procs |-> "idle"]
  /\ loc = [p \in Procs |-> NoLoc]
  /\ result = [p \in Procs |-> NoResult]
  /\ ctxDone = [p \in Procs |-> FALSE]
  /\ issued = [p \in Procs |-> <<>>]
  /\ saved = [k \in ListKeys |-> NoObject]
  /\ exists = TRUE
  /\ be = [p \in Procs |-> Backend(NewConfig)]
  /\ call = NoCall

NextListRemove ==
  \/ ListStart(1, {"keys"})
  \/ GetOCINamespace(1)
  \/ ListListObjects(1)
  \/ ListHead(1)
  \/ ListDispatch(1)
  \/ ListFn(1)
  \/ RemoveStart(2, RemovedHandles)
  \/ GetOCINamespace(2)
  \/ RemoveDelete(2)

SpecListRemove == InitListRemove /\ [][NextListRemove]_vars

\* ------------------------------------------------- two callers that save
\* Each of the two callers saves one stream of one or two bytes under the
\* same handle; their remote calls interleave in every order.
SaveStreams == {<<1>>, <<1, 2>>}

\* p has called no operation yet
Fresh(p) == pc[p] = "idle" /\ loc[p].op = "none"

InitSave2 ==
  /\ bucket = [k \in StoreKeys |-> NoObject]
  /\ pc = [p \in Procs |-> "idle"]
  /\ loc = [p \in Procs |-> NoLoc]
  /\ result = [p \in Procs |-> NoResult]
  /\ ctxDone = [p \in Procs |-> FALSE]
  /\ issued = [p \in Procs |-> <<>>]
  /\ saved = [k \in StoreKeys |-> NoObject]
  /\ exists = TRUE
  /\ be = [p \in Procs |-> Backend(NewConfig)]
  /\ call = NoCall

NextSave2 ==
  \E p \in Procs :
    \/ Fresh(p) /\ SaveStart(p, StoreHandles) /\ loc'[p].rd \in SaveStreams
    \/ GetOCINamespace(p)
    \/ SaveUpload(p)
    \/ SaveCheck(p)

SpecSave2 == InitSave2 /\ [][NextSave2]_vars

\* ----------------------------------------------- two callers that rename
\* Each of the two callers renames the same handle once, to either layout;
\* their remote calls interleave in every order.
InitRename2 ==
  /\ bucket \in [RenameKeys -> {NoObject, <<1>>}]
  /\ pc = [p \in Procs |-> "idle"]
  /\ loc = [p \in Procs |-> NoLoc]
  /\ result = [p \in Procs |-> NoResult]
  /\ ctxDone = [p \in Procs |-> FALSE]
  /\ issued = [p \in Procs |-> <<>>]
  /\ saved = [k \in RenameKeys |-> NoObject]
  /\ exists = TRUE
  /\ be = [p \in Procs |-> Backend(NewConfig)]
  /\ call = NoCall

NextRename2 ==
  \E p \in Procs :
    \/ Fresh(p) /\ RenameStart(p, RenameHandles)
    \/ GetOCINamespace(p)
    \/ RenameCopy(p)
    \/ RenameDelete(p)

SpecRename2 == InitRename2 /\ [][NextRename2]_vars

\* ----------------------------- a Save, then Stat and List of what it left
\* Caller 1 saves one key file; once that Save has returned, caller 2 stats
\* the handle and lists the key files, any number of times.  The bucket
\* starts with any of the entries under the prefix of the key files.
SaveListHandles == {Handle("keys", "k1"), Handle("keys", "k3")}

InitSaveList ==
  /\ bucket \in {b \in [ListKeys -> {NoObject, <<1>>}] :
                  \A k \in ListKeys :
                    ~HasPrefix(k, Basedir("keys")) => b[k] = NoObject}
  /\ pc = [p \in Procs |-> "idle"]
  /\ loc = [p \in Procs |-> NoLoc]
  /\ result = [p \in Procs |-> NoResult]
  /\ ctxDone = [p \in Procs |-> FALSE]
  /\ issued = [p \in Procs |-> <<>>]
  /\ saved = [k \in ListKeys |-> NoObject]
  /\ exists = TRUE
  /\ be = [p \in Procs |-> Backend(NewConfig)]
  /\ call = NoCall

NextSaveList ==
  \/ Fresh(1) /\ SaveStart(1, SaveListHandles) /\ loc'[1].rd \in SaveStreams
  \/ GetOCINamespace(1)
  \/ SaveUpload(1)
  \/ SaveCheck(1)
  \/ /\ pc[1] = "idle" /\ result[1].op = "Save"
     /\ StatStart(2, SaveListHandles)
     /\ loc'[2].objName = result[1].objName
  \/ /\ pc[1] = "idle" /\ result[1].op = "Save"
     /\ ListStart(2, {"keys"})
  \/ GetOCINamespace(2)
  \/ StatHead(2)
  \/ ListListObjects(2)
  \/ ListHead(2)
  \/ ListDispatch(2)
  \/ ListFn(2)

SpecSaveList == InitSaveList /\ [][NextSaveList]_vars

\* --------------------------------------- one caller, all six operations
\* Save, Stat, Remove, Load, List and Rename of one key handle by one
\* caller after the other; the bucket starts with the two keys of the
\* handle and one more key file stored or not.
NamespaceKeys == RenameKeys \cup {Filename(Handle("keys", "k2"))}

InitNamespace ==
  /\ bucket \in {b \in [ListKeys -> {NoObject, <<1>>}] :
                  \A k \in ListKeys \ NamespaceKeys : b[k] = NoObject}
  /\ pc = [p \in Procs |-> "idle"]
  /\ loc = [p \in Procs |-> NoLoc]
  /\ result = [p \in Procs |-> NoResult]
  /\ ctxDone = [p \in Procs |-> FALSE]
  /\ issued = [p \in Procs |-> <<>>]
  /\ saved = [k \in ListKeys |-> NoObject]
  /\ exists = TRUE
  /\ be = [p \in Procs |-> Backend(NewConfig)]
  /\ call = NoCall

NextNamespace ==
  \/ SaveStart(1, StoreHandles) /\ loc'[1].rd \in SaveStreams
  \/ StatStart(1, StoreHandles)
  \/ RemoveStart(1, StoreHandles)
  \/ LoadStart(1, StoreHandles)
  \/ ListStart(1, {"keys"})
  \/ RenameStart(1, RenameHandles)
  \/ GetOCINamespace(1)
  \/ SaveUpload(1)
  \/ SaveCheck(1)
  \/ StatHead(1)
  \/ RemoveDelete(1)
  \/ LoadGetObject(1)
  \/ ListListObjects(1)
  \/ ListHead(1)
  \/ ListDispatch(1)
  \/ ListFn(1)
  \/ RenameCopy(1)
  \/ RenameDelete(1)

SpecNamespace == InitNamespace /\ [][NextNamespace]_vars

\* ------------------------------------ one caller stats, one caller lists
\* Caller 1 stats a key file or a data file while caller 2 lists the files
\* of either type; nothing writes to the bucket, which starts with any of
\* the keys of the handles holding an object of one or two bytes and any
\* other key an object of one byte.
StatListHandles ==
  {Handle("keys", "k1"), Handle("keys", "k3"), Handle("data", "abc")}
StatListKeys == {Filename(h) : h \in StatListHandles}

InitStatList ==
  /\ bucket \in {b \in [ListKeys -> {NoObject, <<1>>, <<1, 2>>}] :
                  \A k \in ListKeys \ StatListKeys : b[k] # <<1, 2>>}
  /\ pc = [p \in Procs |-> "idle"]
  /\ loc = [p \in Procs |-> NoLoc]
  /\ result = [p \in Procs |-> NoResult]
  /\ ctxDone = [p \in Procs |-> FALSE]
  /\ issued = [p \in Procs |-> <<>>]
  /\ saved = [k \in ListKeys |-> NoObject]
  /\ exists = TRUE
  /\ be = [p \in Procs |-> Backend(NewConfig)]
  /\ call = NoCall

NextStatList ==
  \/ Fresh(1) /\ StatStart(1, StatListHandles)
  \/ GetOCINamespace(1)
  \/ StatHead(1)
  \/ Fresh(2) /\ ListStart(2, ListTypes)
  \/ GetOCINamespace(2)
  \/ ListListObjects(2)
  \/ ListHead(2)
  \/ ListDispatch(2)
  \/ ListFn(2)

SpecStatList == InitStatList /\ [][NextStatList]_vars

\* ------------------------------------------- functions without remote calls
\* what the variables of the callers and of the store are while a function
\* without remote calls is called
NoCallers ==
  /\ bucket = [k \in StoreKeys |-> NoObject]
  /\ pc = [p \in Procs |-> "idle"]
  /\ loc = [p \in Procs |-> NoLoc]
  /\ result = [p \in Procs |-> NoResult]
  /\ ctxDone = [p \in Procs |-> FALSE]
  /\ issued = [p \in Procs |-> <<>>]
  /\ saved = [k \in StoreKeys |-> NoObject]
  /\ exists = TRUE
  /\ be = [p \in Procs |-> NoBackend]

\* ----------------------------------------------------------------- getRange
InitGetRange ==
  /\ NoCallers
  /\ call \in {[fn |-> "getRange", start |-> start, end |-> end,
                 done |-> FALSE, range |-> <<>>, err |-> Nil] :
                  start \in -MaxStart..MaxStart, end \in -MaxStart..MaxStart}

\* getRange returns
GetRangeReturn ==
  /\ call.fn = "getRange" /\ ~call.done
  /\ call' = [call EXCEPT !.done = TRUE,
                          !.range = getRange(call.start, call.end).range,
                          !.err = getRange(call.start, call.end).err]
  /\ UNCHANGED <<bucket, pc, loc, result, ctxDone, issued, saved, exists, be>>

NextGetRange == GetRangeReturn

SpecGetRange == InitGetRange /\ [][NextGetRange]_vars

\* ---------------------------------------------- getRange and its caller
\* getRange on every pair of arguments, and one read of one key file with
\* every offset and length, which calls getRange from openReader.
InitRange ==
  /\ bucket \in [StoreKeys -> {NoObject, <<1, 2>>}]
  /\ pc = [p \in Procs |-> "idle"]
  /\ loc = [p \in Procs |-> NoLoc]
  /\ result = [p \in Procs |-> NoResult]
  /\ ctxDone = [p \in Procs |-> FALSE]
  /\ issued = [p \in Procs |-> <<>>]
  /\ saved = [k \in StoreKeys |-> NoObject]
  /\ exists = TRUE
  /\ be = [p \in Procs |-> Backend(NewConfig)]
  /\ call \in {[fn |-> "getRange", start |-> start, end |-> end,
                 done |-> FALSE, range |-> <<>>, err |-> Nil] :
                  start \in -MaxStart..MaxStart, end \in -MaxStart..MaxStart}

NextRange ==
  \/ GetRangeReturn
  \/ Fresh(1) /\ LoadStart(1, StoreHandles)
  \/ GetOCINamespace(1)
  \/ LoadGetObject(1)

SpecRange == InitRange /\ [][NextRange]_vars

\* -------------------------------------------------------------- ParseConfig
\* the texts of at most n of the characters a / .
RECURSIVE Texts(_)
Texts(n) ==
  IF n = 0 THEN {<<>>}
  ELSE LET T == Texts(n - 1)
       IN  T \cup {Append(t, ch) : t \in {u \in T : Len(u) = n - 1},
                                   ch \in {"a", "/", "."}}

\* with the scheme, without it, and with a part of it only
Locations ==
  {Scheme \o t : t \in Texts(MaxTail)} \cup Texts(MaxTail)
    \cup {SubSeq(Scheme, 1, n) \o t : n \in 1..3, t \in Texts(1)}

InitParseConfig ==
  /\ NoCallers
  /\ call \in {[fn |-> "ParseConfig", s |-> s, done |-> FALSE,
                 cfg |-> ZeroConfig, err |-> Nil] : s \in Locations}

\* ParseConfig returns
ParseConfigReturn ==
  /\ call.fn = "ParseConfig" /\ ~call.done
  /\ call' = [call EXCEPT !.done = TRUE,
                          !.cfg = ParseConfig(call.s).cfg,
                          !.err = ParseConfig(call.s).err]
  /\ UNCHANGED <<bucket, pc, loc, result, ctxDone, issued, saved, exists, be>>

NextParseConfig == ParseConfigReturn

SpecParseConfig == InitParseConfig /\ [][NextParseConfig]_vars

\* --------------------------------------------------------- ApplyEnvironment
\* the fields of a Config that ApplyEnvironment may set, but for the auth
\* type, each with the variable it is read from
EnvVarOf ==
  [Region |-> "OCI_REGION", TenancyID |-> "OCI_TENANCY",
   UserID |-> "OCI_USER", Fingerprint |-> "OCI_FINGERPRINT",
   PrivateKeyFile |-> "OCI_KEY_FILE",
   CompartmentOCID |-> "OCI_COMPARTMENT_OCID",
   Passphrase |-> "OCI_PASSPHRASE"]

AuthTypes == {"", UserPrincipal, InstancePrincipal, WorkloadPrincipal}

\* configs whose fields are empty or set
Configs(connections) ==
  {[ZeroConfig EXCEPT !.Region = f.Region, !.TenancyID = f.TenancyID,
                      !.UserID = f.UserID, !.Fingerprint = f.Fingerprint,
                      !.PrivateKeyFile = f.PrivateKeyFile,
                      !.CompartmentOCID = f.CompartmentOCID,
                      !.Passphrase = f.Passphrase, !.OCIAuthType = t,
                      !.Connections = n] :
     f \in [DOMAIN EnvVarOf -> {"", "c"}], t \in AuthTypes,
     n \in connections}

\* environments: OCI_AUTH_TYPE is unset, empty, one of the three keys or
\* another text; of the other variables at most one is set, or at most one
\* is empty (or unset)
Environments ==
  {[OCI_AUTH_TYPE |-> a, OCI_REGION |-> v.Region,
    OCI_TENANCY |-> v.TenancyID, OCI_USER |-> v.UserID,
    OCI_FINGERPRINT |-> v.Fingerprint, OCI_KEY_FILE |-> v.PrivateKeyFile,
    OCI_COMPARTMENT_OCID |-> v.CompartmentOCID,
    OCI_PASSPHRASE |-> v.Passphrase] :
     a \in {Unset, "", UserPrincipalKey, InstancePrincipalKey, WorkloadKey,
            "other"},
     v \in {w \in [DOMAIN EnvVarOf -> {"", "e"}] :
              \/ Cardinality({f \in DOMAIN EnvVarOf : w[f] = "e"}) <= 1
              \/ Cardinality({f \in DOMAIN EnvVarOf : w[f] = ""}) <= 1}}

InitApplyEnvironment ==
  /\ NoCallers
  /\ call \in {[fn |-> "ApplyEnvironment", cfg |-> cfg, env |-> env,
                 done |-> FALSE, after |-> cfg] :
                  cfg \in Configs({DefaultConnections}),
                  env \in Environments}

\* ApplyEnvironment returns
ApplyEnvironmentReturn ==
  /\ call.fn = "ApplyEnvironment" /\ ~call.done
  /\ call' = [call EXCEPT !.done = TRUE,
                          !.after = ApplyEnvironment(call.cfg, call.env)]
  /\ UNCHANGED <<bucket, pc, loc, result, ctxDone, issued, saved, exists, be>>

NextApplyEnvironment == ApplyEnvironmentReturn

SpecApplyEnvironment == InitApplyEnvironment /\ [][NextApplyEnvironment]_vars

\* ---------------------------------------------------------- Open and Create
\* One config, given to Open and to Create by one caller after the other;
\* the bucket it names exists or not.
OpenConfigs ==
  {cfg \in Configs({0, DefaultConnections}) : cfg.Passphrase = ""}

InitOpen ==
  /\ bucket = [k \in StoreKeys |-> NoObject]
  /\ pc = [p \in Procs |-> "idle"]
  /\ loc = [p \in Procs |-> NoLoc]
  /\ result = [p \in Procs |-> NoResult]
  /\ ctxDone = [p \in Procs |-> FALSE]
  /\ issued = [p \in Procs |-> <<>>]
  /\ saved = [k \in StoreKeys |-> NoObject]
  /\ exists \in BOOLEAN
  /\ be = [p \in Procs |-> NoBackend]
  /\ call \in {[fn |-> "open", cfg |-> cfg] : cfg \in OpenConfigs}

NextOpen ==
  \/ Open(1)
  \/ CreateStart(1)
  \/ GetOCINamespace(1)
  \/ CreateGetBucket(1)
  \/ CreateCreateBucket(1)
  \/ Cancel(1)

SpecOpen == InitOpen /\ [][NextOpen]_vars

\* ------------------------------------------------------------------ claims
\* the operation op of caller p has returned and p has started nothing since
Returned(p, op) == pc[p] = "idle" /\ result[p].op = op

\* the remote calls named c that the last operation of p issued
Calls(p, c) == {i \in 1..Len(issued[p]) : issued[p][i].call = c}

\* C1: Save returns success only if its upload reported success and the
\* metadata fetch that followed it, for the same key, reported a size equal
\* to rd.Length(); a metadata fetch that reports another size makes Save
\* return a size-mismatch error although the upload reported success.
C1_SaveVerified ==
  \A p \in Procs : Returned(p, "Save") =>
    LET log == issued[p] IN
    /\ result[p].err = Nil =>
         \E i \in Calls(p, "UploadStream"), j \in Calls(p, "HeadObject") :
            /\ i < j
            /\ log[i].err = Nil
            /\ log[j].err = Nil
            /\ log[j].key = result[p].objName
            /\ log[j].size = Len(result[p].rd)
    /\ \A j \in Calls(p, "HeadObject") :
         (log[j].err = Nil /\ log[j].size # Len(result[p].rd)) =>
            /\ result[p].err.kind = "SizeMismatch"
            /\ \E i \in Calls(p, "UploadStream") : log[i].err = Nil

\* a Save whose upload reported success and whose metadata fetch reported
\* fewer bytes than the stream holds
C1_Witness ==
  \E p \in Procs :
    /\ Returned(p, "Save")
    /\ result[p].err.kind = "SizeMismatch"
    /\ \E i \in Calls(p, "UploadStream") : issued[p][i].err = Nil
    /\ \E j \in Calls(p, "HeadObject") :
         issued[p][j].size < Len(result[p].rd)

\* C5: Remove returns success when the delete is answered not-found (no
\* object under the key), so it succeeds however often it is repeated; any
\* other failure of the delete is returned as an error.
C5_RemoveIdempotent ==
  \A p \in Procs : Returned(p, "Remove") =>
    \A i \in Calls(p, "DeleteObject") :
      LET e == issued[p][i].err IN
      /\ (e = Nil \/ IsNotExist(e)) => result[p].err = Nil
      /\ (e # Nil /\ ~IsNotExist(e)) =>
            (result[p].err # Nil /\ result[p].err.kind = e.kind)
      /\ (~result[p].existed /\ ~result[p].faulted) => result[p].err = Nil

\* a Remove of a key that holds no object, answered not-found by the delete
C5_Witness ==
  \E p \in Procs :
    /\ Returned(p, "Remove")
    /\ ~result[p].existed
    /\ result[p].err = Nil
    /\ \E i \in Calls(p, "DeleteObject") : IsNotExist(issued[p][i].err)

\* C6: after a Save of N bytes returned success and nothing wrote or deleted
\* the key since, a Stat of the handle whose remote calls are answered
\* returns success with Size = N.
C6_SaveStatRoundTrip ==
  \A p \in Procs :
    (/\ Returned(p, "Stat")
     /\ result[p].saved # NoObject
     /\ ~result[p].faulted) =>
       /\ result[p].err = Nil
       /\ result[p].fi.Size = Len(result[p].saved)

\* a Stat after a successful Save of a non-empty stream
C6_Witness ==
  \E p \in Procs :
    /\ Returned(p, "Stat")
    /\ result[p].saved # NoObject
    /\ Len(result[p].saved) = MaxLen
    /\ result[p].err = Nil

\* data[offset : offset+length] of Go, for 0 <= offset, 0 < length
Slice(data, offset, length) == SubSeq(data, offset + 1, offset + length)

\* C7: after a successful Save of data under h (the key not written since),
\* a Load with offset >= 0, length > 0 and offset+length <= len(data) whose
\* remote calls are answered hands fn a reader that yields exactly
\* data[offset : offset+length].
C7_SaveLoadRoundTrip ==
  \A p \in Procs :
    (/\ Returned(p, "Load")
     /\ result[p].saved # NoObject
     /\ ~result[p].faulted
     /\ result[p].offset >= 0
     /\ result[p].length > 0
     /\ result[p].offset + result[p].length <= Len(result[p].saved)) =>
       /\ Calls(p, "GetObject") # {}
       /\ \A i \in Calls(p, "GetObject") : issued[p][i].err = Nil
       /\ result[p].data =
            Slice(result[p].saved, result[p].offset, result[p].length)

\* a Load of the last byte of a saved stream of MaxLen bytes
C7_Witness ==
  \E p \in Procs :
    /\ Returned(p, "Load")
    /\ result[p].saved # NoObject
    /\ Len(result[p].saved) = MaxLen
    /\ result[p].offset = MaxLen - 1
    /\ result[p].length = 1
    /\ result[p].err = Nil
    /\ Len(result[p].data) = 1

\* C8: Stat of a handle whose object does not exist never returns success;
\* when the metadata fetch is answered not-found, the error of Stat is one
\* that IsNotExist classifies as not-found.
C8_StatNotFound ==
  \A p \in Procs :
    (Returned(p, "Stat") /\ ~result[p].existed) =>
       /\ result[p].err # Nil
       /\ ~result[p].faulted => IsNotExist(result[p].err)

\* C2: for a handle whose object exists under the old key when Rename
\* starts, in every state of the Rename, a crashed or failed one included,
\* the content is present under the old key or under the new key.
C2_RenameNoLoss ==
  \A p \in Procs :
    (loc[p].op = "Rename" /\ loc[p].had # NoObject) =>
       \/ bucket[loc[p].objName] = loc[p].had
       \/ bucket[loc[p].newname] = loc[p].had

\* a Rename that crashed between its copy and its delete
C2_Witness ==
  \E p \in Procs :
    /\ loc[p].op = "Rename" /\ loc[p].had # NoObject
    /\ pc[p] = "idle" /\ result[p].op = "Crashed"
    /\ Calls(p, "CopyObject") # {} /\ Calls(p, "DeleteObject") = {}
    /\ \A i \in Calls(p, "CopyObject") : issued[p][i].err = Nil
    /\ bucket[loc[p].objName] = loc[p].had
    /\ bucket[loc[p].newname] = loc[p].had

\* C3: a Rename called twice in sequence with the same handle and layouts
\* returns success both times (the remote calls being answered).
C3_RenameRetry ==
  \A p \in Procs :
    (Returned(p, "Rename") /\ ~result[p].faulted) => result[p].err = Nil

\* the second of two Renames in a row, whose copy is answered not-found
C3_Witness ==
  \E p \in Procs :
    /\ Returned(p, "Rename")
    /\ result[p].attempt = 2
    /\ result[p].err = Nil
    /\ \E i \in Calls(p, "CopyObject") : IsNotExist(issued[p][i].err)

\* C4 as stated: whenever Rename returns success with old and new keys
\* different, the object is retrievable under the new key and no longer
\* under the old key.
C4_RenameMoves ==
  \A p \in Procs :
    (/\ Returned(p, "Rename") /\ result[p].err = Nil
     /\ result[p].objName # result[p].newname) =>
       /\ bucket[result[p].newname] # NoObject
       /\ bucket[result[p].objName] = NoObject

\* C4 as amended: whenever Rename returns success with old and new keys
\* different, no object is retrievable under the old key, and an object
\* that was under the old key when Rename started is retrievable, with its
\* content, under the new key; otherwise the new key is as it was.
C4_RenameMovesWhatWasThere ==
  \A p \in Procs :
    (/\ Returned(p, "Rename") /\ result[p].err = Nil
     /\ result[p].objName # result[p].newname) =>
       /\ bucket[result[p].objName] = NoObject
       /\ result[p].had # NoObject =>
            bucket[result[p].newname] = result[p].had
       /\ result[p].had = NoObject => Calls(p, "DeleteObject") = {}

\* a successful Rename of an object that existed under the old key
C4_Witness ==
  \E p \in Procs :
    /\ Returned(p, "Rename") /\ result[p].err = Nil
    /\ result[p].objName # result[p].newname
    /\ result[p].had # NoObject
    /\ Calls(p, "DeleteObject") # {}

\* the entries of the listing that List is to visit: the objects stored
\* under the prefix whose name after the prefix is not empty
ToVisit(r) ==
  {j \in 1..Len(r.stored) : TrimPrefix(r.stored[j].key, r.prefix) # <<"">>}

\* fn was called exactly once for the stored object j, with its base name
\* and its size
VisitedOnce(r, j) ==
  /\ Cardinality({i \in 1..Len(r.visited) :
                    r.visited[i].key = r.stored[j].key}) = 1
  /\ \A i \in 1..Len(r.visited) :
       r.visited[i].key = r.stored[j].key =>
         r.visited[i].fi =
           [Name |-> PathBase(TrimPrefix(r.stored[j].key, r.prefix)),
            Size |-> r.stored[j].size]

\* C9: a List without cancellation or errors returns success and has called
\* fn exactly once for every object stored under the prefix of the file
\* type with a non-empty name, with the base name and the size of the
\* object, and for nothing else; with no object under the prefix fn is not
\* called.
C9_ListVisitsAll ==
  \A p \in Procs : Returned(p, "List") =>
    /\ result[p].err = Nil =>
         /\ \A j \in ToVisit(result[p]) : VisitedOnce(result[p], j)
         /\ Len(result[p].visited) = Cardinality(ToVisit(result[p]))
    /\ (result[p].err # Nil /\ ~ctxDone[p]) =>
         (result[p].faulted \/ result[p].err.kind = "Fn")

\* C10 as stated: once the context is cancelled during List, fn is called
\* for no further entry and List returns the cancellation error.
C10_ListCancelled ==
  \A p \in Procs :
    (Returned(p, "List") /\ ctxDone[p]) =>
       /\ result[p].err.kind = "Canceled"
       /\ \A i \in 1..Len(result[p].visited) : ~result[p].visited[i].done

\* C10 as amended: once the context is cancelled during List, fn is called
\* for no further entry and List does not return success: it returns the
\* cancellation error, or the error that the callback returned.
C10_ListCancelledOrFnError ==
  \A p \in Procs :
    /\ loc[p].op = "List" =>
         \A i \in 1..Len(loc[p].visited) : ~loc[p].visited[i].done
    /\ (Returned(p, "List") /\ ctxDone[p]) =>
         /\ result[p].err # Nil
         /\ result[p].err.kind \in {"Canceled", "Fn"}
         /\ result[p].err.kind = "Fn" => result[p].visited # <<>>

\* a List cancelled after its first callback, with entries left to visit
C10_Witness ==
  \E p \in Procs :
    /\ Returned(p, "List") /\ ctxDone[p]
    /\ result[p].err.kind = "Canceled"
    /\ Len(result[p].visited) = 1
    /\ Cardinality(ToVisit(result[p])) > 1
    /\ Calls(p, "HeadObject") # {}
    /\ \A i \in Calls(p, "HeadObject") : issued[p][i].err = Nil

\* C11: getRange(start, end) returns "bytes=<end>" when start = 0 and
\* end < 0, "bytes=<start>-" when start > 0 and end = 0,
\* "bytes=<start>-<end>" when 0 <= start <= end, and an invalid-range error
\* for every other pair, never a clamped range.
C11_GetRangeForms ==
  (call.fn = "getRange" /\ call.done) =>
    LET start == call.start
        end == call.end
    IN  IF start = 0 /\ end < 0
        THEN /\ call.err = Nil
             /\ call.range = <<Lit("bytes="), Lit("-"), Num(-end)>>
        ELSE IF start > 0 /\ end = 0
        THEN /\ call.err = Nil
             /\ call.range = <<Lit("bytes="), Num(start), Lit("-")>>
        ELSE IF 0 <= start /\ start <= end
        THEN /\ call.err = Nil
             /\ call.range =
                  <<Lit("bytes="), Num(start), Lit("-"), Num(end)>>
        ELSE call.err.kind = "InvalidRange"

\* getRange has rejected a closed range whose end is before its start
C11_Witness ==
  /\ call.fn = "getRange" /\ call.done
  /\ 0 < call.end /\ call.end < call.start
  /\ call.err.kind = "InvalidRange"

\* the call of getRange that openReader makes for length and offset fails
Rejects(length, offset) ==
  \/ length > 0 /\ getRange(offset, offset + length - 1).err # Nil
  \/ length <= 0 /\ offset > 0 /\ getRange(offset, 0).err # Nil

\* C12: when the range calculator rejects the offset and length of a read,
\* the read returns that error and has issued no remote call, neither the
\* namespace resolution nor get-object.
C12_RejectedBeforeRemote ==
  \A p \in Procs :
    (loc[p].op = "Load" /\ Rejects(loc[p].length, loc[p].offset)) =>
       /\ issued[p] = <<>>
       /\ Returned(p, "Load")
       /\ result[p].err.kind = "InvalidRange"

\* a read with a negative offset and a positive length has returned
C12_Witness ==
  \E p \in Procs :
    /\ Returned(p, "Load")
    /\ result[p].offset < 0 /\ result[p].length > 0
    /\ result[p].err.kind = "InvalidRange"
    /\ issued[p] = <<>>

\* C13: a read with a negative offset or a negative length returns an
\* invalid-range error and sends no get-object request, whatever the other
\* argument is.
C13_NonsenseRejected ==
  \A p \in Procs :
    (loc[p].op = "Load" /\ (loc[p].offset < 0 \/ loc[p].length < 0)) =>
       /\ Calls(p, "GetObject") = {}
       /\ Returned(p, "Load") => result[p].err.kind = "InvalidRange"

\* C14: the range that a read sends with get-object is the closed range
\* from offset to offset+length-1 when length > 0, the open range from
\* offset when length = 0 and offset > 0, and no range when both are 0.
C14_RangeOfRead ==
  \A p \in Procs :
    (loc[p].op = "Load" /\ Calls(p, "GetObject") # {}) =>
       LET length == loc[p].length
           offset == loc[p].offset
           sent == loc[p].bytesRange
       IN  /\ length > 0 =>
                sent = <<Lit("bytes="), Num(offset), Lit("-"),
                         Num(offset + length - 1)>>
           /\ (length = 0 /\ offset > 0) =>
                sent = <<Lit("bytes="), Num(offset), Lit("-")>>
           /\ (length = 0 /\ offset = 0) => sent = <<>>

\* a read of one byte at a positive offset was answered by get-object
C14_Witness ==
  \E p \in Procs :
    /\ Returned(p, "Load")
    /\ result[p].length = 1 /\ result[p].offset > 0
    /\ \E i \in Calls(p, "GetObject") : issued[p][i].err = Nil
    /\ Len(result[p].data) = 1

\* C20: Rename issues the delete of the old key only after its copy from the
\* old key reported success; when the copy fails with an error other than
\* not-found, Rename returns that error, issues no delete, and the object
\* under the old key is unchanged.
C20_DeleteAfterCopy ==
  \A p \in Procs : loc[p].op = "Rename" =>
    LET log == issued[p] IN
    /\ \A j \in Calls(p, "DeleteObject") :
         /\ log[j].key = loc[p].objName
         /\ \E i \in Calls(p, "CopyObject") :
              i < j /\ log[i].err = Nil /\ log[i].key = loc[p].objName
    /\ \A i \in Calls(p, "CopyObject") :
         (log[i].err # Nil /\ ~IsNotExist(log[i].err)) =>
            /\ Returned(p, "Rename")
            /\ result[p].err = log[i].err
            /\ Calls(p, "DeleteObject") = {}
            /\ bucket[loc[p].objName] = loc[p].had

\* a Rename of an existing object whose copy failed for another reason than
\* not-found
C20_Witness ==
  \E p \in Procs :
    /\ Returned(p, "Rename")
    /\ result[p].had # NoObject
    /\ result[p].err.kind = "Remote"
    /\ \E i \in Calls(p, "CopyObject") : issued[p][i].err.kind = "Remote"
    /\ Calls(p, "DeleteObject") = {}
    /\ bucket[result[p].objName] = result[p].had

C16_ExplicitConfigWins ==
  (call.fn = "ApplyEnvironment" /\ call.done) =>
    /\ call.cfg.OCIAuthType # "" =>
         call.after.OCIAuthType = call.cfg.OCIAuthType
    /\ \A f \in DOMAIN EnvVarOf :
         /\ call.cfg[f] # "" => call.after[f] = call.cfg[f]
         /\ call.cfg[f] = "" =>
              call.after[f] \in {"", call.env[EnvVarOf[f]]}

\* the failed remote call c of the operation op is one whose error the
\* operation is to leave out: the delete of Remove and the copy of Rename
\* answering not-found.  The existence check of Create answering not-found
\* is no failure of the check: it is answered by creating the bucket.
Excepted(op, c) ==
  /\ IsNotExist(c.err)
  /\ \/ op = "Remove" /\ c.call = "DeleteObject"
     \/ op = "Rename" /\ c.call = "CopyObject"
     \/ op = "Create" /\ c.call = "GetBucket"

\* C15: in every adapter operation (Save, Load, Stat, Remove, List, Rename,
\* and the bucket creation of Create) a failed remote call makes the
\* operation return an error, except for the delete of Remove and the copy
\* of Rename answering not-found.
C15_NoErrorSwallowed ==
  \A p \in Procs :
    (/\ pc[p] = "idle"
     /\ result[p].op \in {"Save", "Load", "Stat", "Remove", "List",
                          "Rename", "Create"}) =>
       \A i \in 1..Len(issued[p]) :
         (issued[p][i].err # Nil /\ ~Excepted(result[p].op, issued[p][i]))
            => result[p].err # Nil

\* C18: after Open returns success for a config whose bucket did not exist,
\* the bucket exists.
C18_OpenCreatesBucket ==
  \A p \in Procs :
    (Returned(p, "Open") /\ result[p].err = Nil /\ ~result[p].existed) =>
       exists

\* C19: every backend returned by Open or Create has Connections() > 0,
\* and 5 when the config holds the Connections of NewConfig.
C19_ConnectionsPositive ==
  \A p \in Procs : be[p].open =>
    /\ be[p].connections > 0
    /\ call.cfg.Connections = NewConfig.Connections =>
         be[p].connections = 5

\* the last remote call that p has issued
LastCall(p) == issued[p][Len(issued[p])]

\* the step is one in which p issues the remote call c
Issues(p, c) ==
  /\ Len(issued'[p]) = Len(issued[p]) + 1
  /\ issued'[p][Len(issued'[p])].call = c

\* C21: when the copy of Rename is answered not-found on the source, Rename
\* returns success and issues no delete, and no step of that Rename has
\* changed the contents of the bucket.
C21_RenameSourceGone ==
  /\ [](\A p \in Procs :
          (/\ loc[p].op = "Rename"
           /\ \E i \in Calls(p, "CopyObject") : IsNotExist(issued[p][i].err))
          => /\ Returned(p, "Rename")
             /\ result[p].err = Nil
             /\ Calls(p, "DeleteObject") = {}
             /\ LastCall(p).call = "CopyObject")
  /\ [][\A p \in Procs :
          (\/ loc'[p].op = "Rename" /\ pc[p] = "idle"
           \/ Issues(p, "GetNamespace")
           \/ /\ Issues(p, "CopyObject")
              /\ IsNotExist(issued'[p][Len(issued'[p])].err))
          => bucket' = bucket]_vars

\* a first Rename of a handle with no object under its old key, while the
\* new key holds one
C21_Witness ==
  \E p \in Procs :
    /\ Returned(p, "Rename")
    /\ result[p].attempt = 1
    /\ result[p].had = NoObject
    /\ bucket[result[p].newname] # NoObject
    /\ result[p].err = Nil
    /\ IsNotExist(LastCall(p).err)

\* C22: when the key of h under the layout of the backend equals its key
\* under the new layout, Rename returns success without any remote call
\* and leaves the bucket unchanged.
C22_RenameSameKey ==
  /\ [](\A p \in Procs :
          (loc[p].op = "Rename" /\ loc[p].objName = loc[p].newname)
          => /\ Returned(p, "Rename")
             /\ result[p].err = Nil
             /\ issued[p] = <<>>)
  /\ [][\A p \in Procs :
          (/\ pc[p] = "idle" /\ loc'[p].op = "Rename"
           /\ loc'[p].objName = loc'[p].newname)
          => bucket' = bucket]_vars

\* a Rename to the layout of the backend of a handle whose object exists
C22_Witness ==
  \E p \in Procs :
    /\ Returned(p, "Rename")
    /\ result[p].objName = result[p].newname
    /\ result[p].had # NoObject
    /\ bucket[result[p].objName] = result[p].had
    /\ issued[p] = <<>>

\* C23: List ends on the first error.  When the head-object of an entry
\* returns an error (the entry was removed after the listing was taken, or
\* the call failed) or fn returns an error, List returns that error, issues
\* no further remote call and calls fn for no later entry; the calls of fn
\* made before stay as they were.
C23_ListFirstError ==
  /\ [](\A p \in Procs :
          loc[p].op = "List" =>
            /\ \A i \in Calls(p, "HeadObject") :
                 issued[p][i].err # Nil =>
                   /\ Returned(p, "List")
                   /\ result[p].err = issued[p][i].err
                   /\ i = Len(issued[p])
                   /\ \A v \in 1..Len(result[p].visited) :
                        /\ result[p].visited[v].key # issued[p][i].key
                        /\ \E j \in Calls(p, "HeadObject") :
                             /\ j < i
                             /\ issued[p][j].key = result[p].visited[v].key
            /\ \A v \in 1..Len(loc[p].visited) :
                 loc[p].visited[v].err # Nil =>
                   /\ Returned(p, "List")
                   /\ result[p].err = loc[p].visited[v].err
                   /\ result[p].visited = loc[p].visited
                   /\ v = Len(loc[p].visited)
                   /\ LastCall(p).call = "HeadObject"
                   /\ LastCall(p).key = loc[p].visited[v].key)
  /\ [][\A p \in Procs :
          (loc[p].op = "List" /\ pc[p] # "idle") =>
            /\ Len(loc'[p].visited) >= Len(loc[p].visited)
            /\ \A v \in 1..Len(loc[p].visited) :
                 /\ loc'[p].visited[v].key = loc[p].visited[v].key
                 /\ loc'[p].visited[v].fi = loc[p].visited[v].fi
            /\ pc'[p] = "idle" =>
                 /\ Len(result'[p].visited) = Len(loc[p].visited)
                 /\ \A v \in 1..Len(loc[p].visited) :
                      /\ result'[p].visited[v].key = loc[p].visited[v].key
                      /\ result'[p].visited[v].fi = loc[p].visited[v].fi]_vars

\* List has called fn for one entry and returned the not-found error of the
\* head-object of the next entry, which the other caller had removed after
\* the listing was taken
C23_Witness ==
  /\ Returned(1, "List")
  /\ Len(result[1].visited) = 1
  /\ IsNotExist(result[1].err)
  /\ LastCall(1).call = "HeadObject"
  /\ \E j \in 1..Len(result[1].stored) :
       result[1].stored[j].key = LastCall(1).key
  /\ Returned(2, "Remove")
  /\ result[2].objName = LastCall(1).key
  /\ result[2].existed

\* C24: in Create, when get-bucket answers not-found, create-bucket is
\* issued with the name and the compartment of the config and no public
\* access, and its error is the result of Create; when get-bucket succeeds
\* or fails with any other error, no create-bucket is issued and Create
\* returns success, the bucket being reported as existing.
C24_BucketCheck ==
  \A p \in Procs :
    loc[p].op = "Create" =>
      \A i \in Calls(p, "GetBucket") :
        /\ IsNotExist(issued[p][i].err) =>
              /\ pc[p] = "CreateBucket" => i = Len(issued[p])
              /\ pc[p] = "idle" =>
                   /\ Calls(p, "CreateBucket") = {i + 1}
                   /\ LastCall(p).key =
                        <<call.cfg.BucketName, call.cfg.CompartmentOCID,
                          "NoPublicAccess">>
                   /\ Returned(p, "Create")
                   /\ result[p].err = LastCall(p).err
        /\ ~IsNotExist(issued[p][i].err) =>
              /\ Calls(p, "CreateBucket") = {}
              /\ Returned(p, "Create")
              /\ result[p].err = Nil

\* C24 but for get-bucket failing without an HTTP response
C24_BucketCheckButPanic ==
  \A p \in Procs :
    loc[p].op = "Create" =>
      \A i \in Calls(p, "GetBucket") :
        /\ IsNotExist(issued[p][i].err) =>
              /\ pc[p] = "CreateBucket" => i = Len(issued[p])
              /\ pc[p] = "idle" =>
                   /\ Calls(p, "CreateBucket") = {i + 1}
                   /\ LastCall(p).key =
                        <<call.cfg.BucketName, call.cfg.CompartmentOCID,
                          "NoPublicAccess">>
                   /\ Returned(p, "Create")
                   /\ result[p].err = LastCall(p).err
        /\ (~IsNotExist(issued[p][i].err) /\ ~Returned(p, "Panicked")) =>
              /\ Calls(p, "CreateBucket") = {}
              /\ Returned(p, "Create")
              /\ result[p].err = Nil

\* C25: once the caller has cancelled the context of an operation, every
\* remote call that the operation issues is issued under a cancelled
\* context.
C25_ContextThreaded ==
  [][\A p \in Procs :
       (ctxDone[p] /\ Len(issued'[p]) = Len(issued[p]) + 1) =>
          issued'[p][Len(issued'[p])].done]_vars

\* C25 but for the get-bucket of Create
C25_ButGetBucket ==
  [][\A p \in Procs :
       (/\ ctxDone[p] /\ Len(issued'[p]) = Len(issued[p]) + 1
        /\ issued'[p][Len(issued'[p])].call # "GetBucket") =>
          issued'[p][Len(issued'[p])].done]_vars

\* C26: Save issues the head-object of its sanity check only after an
\* upload that reported success.  When the upload fails, Save returns the
\* error of the upload, wrapped, and issues no head-object; when the upload
\* succeeds and the head-object fails, Save returns an error.
C26_SaveCheckAfterUpload ==
  \A p \in Procs :
    loc[p].op = "Save" =>
      LET log == issued[p] IN
      /\ \A j \in Calls(p, "HeadObject") :
           /\ \E i \in Calls(p, "UploadStream") : i < j /\ log[i].err = Nil
           /\ log[j].err # Nil =>
                /\ Returned(p, "Save")
                /\ result[p].err # Nil
      /\ \A i \in Calls(p, "UploadStream") :
           log[i].err # Nil =>
             /\ Returned(p, "Save")
             /\ result[p].err = Wrap(log[i].err, "client.UploadStreamRequest")
             /\ Calls(p, "HeadObject") = {}

\* a Save whose upload stored the whole stream and whose head-object failed
C26_Witness ==
  \E p \in Procs :
    /\ Returned(p, "Save")
    /\ \E i \in Calls(p, "UploadStream") :
         issued[p][i].err = Nil /\ issued[p][i].size = Len(result[p].rd)
    /\ \E j \in Calls(p, "HeadObject") : issued[p][j].err # Nil
    /\ result[p].err.wrap = "client.fetch getResponse"
    /\ bucket[result[p].objName] = result[p].rd

\* the upload of the Save of p reported success and stored the whole stream
UploadedWhole(p) ==
  \E i \in Calls(p, "UploadStream") :
    issued[p][i].err = Nil /\ issued[p][i].size = Len(loc[p].rd)

\* C27: when two callers save under the same handle at the same time and
\* the upload of each stores its whole stream and reports success, each
\* Save whose head-object is answered returns success: no size check fails
\* on the bytes that the other caller wrote in between.
C27_ConcurrentSave ==
  (\A p \in Procs :
     /\ Returned(p, "Save")
     /\ loc[p].objName = loc[1].objName
     /\ UploadedWhole(p)
     /\ \E j \in Calls(p, "HeadObject") : issued[p][j].err = Nil)
  => \A p \in Procs : result[p].err = Nil

\* no remote call of the last operation of p failed for a reason of its own
NoFault(p) ==
  \A i \in 1..Len(issued[p]) : issued[p][i].err.kind # "Remote"

\* C28: when two callers rename the same handle to the same new layout at
\* the same time, the object being stored under the old key and no remote
\* call failing for a reason of its own, both Renames return success and
\* afterwards the object is stored under the new key and not under the old
\* one.
C28_ConcurrentRename ==
  (/\ \A p \in Procs :
        /\ Returned(p, "Rename")
        /\ result[p].objName = result[1].objName
        /\ result[p].newname = result[1].newname
        /\ NoFault(p)
   /\ result[1].objName # result[1].newname
   /\ \E p \in Procs : result[p].had # NoObject)
  => /\ \A p \in Procs : result[p].err = Nil
     /\ bucket[result[1].newname] # NoObject
     /\ bucket[result[1].objName] = NoObject

\* C28 but for the result of the Rename whose delete came second
C28_ButResult ==
  (/\ \A p \in Procs :
        /\ Returned(p, "Rename")
        /\ result[p].objName = result[1].objName
        /\ result[p].newname = result[1].newname
        /\ NoFault(p)
   /\ result[1].objName # result[1].newname
   /\ \E p \in Procs : result[p].had # NoObject)
  => /\ \E p \in Procs : result[p].err = Nil
     /\ \A p \in Procs : result[p].err # Nil => IsNotExist(result[p].err)
     /\ bucket[result[1].newname] # NoObject
     /\ bucket[result[1].objName] = NoObject

\* the Save of caller 1 has returned an error after an upload that reported
\* success: its head-object failed or reported another size
SaveFailedAfterUpload ==
  /\ Returned(1, "Save")
  /\ result[1].err # Nil
  /\ \E i \in Calls(1, "UploadStream") : issued[1][i].err = Nil

\* what a Stat of the handle by caller 2 returns once the Save has failed
StatSeesUploaded ==
  (/\ Returned(2, "Stat") /\ NoFault(2)
   /\ result[2].objName = result[1].objName)
  => /\ result[2].err = Nil
     /\ result[2].fi.Size = Len(bucket[result[1].objName])
     /\ result[1].err.kind = "SizeMismatch" =>
          /\ result[2].fi.Size = result[1].fi.Size
          /\ result[2].fi.Size # Len(result[1].rd)

\* C29: Save does not roll back.  When Save returns a size-mismatch error,
\* or the error of its head-object, after an upload that reported success,
\* the object that the upload stored stays under the key of the handle: a
\* following Stat of the handle succeeds and reports the stored size, and a
\* following List of the type that succeeds has passed the entry to fn.
C29_SaveNoRollback ==
  SaveFailedAfterUpload =>
    /\ bucket[result[1].objName] # NoObject
    /\ StatSeesUploaded
    /\ (Returned(2, "List") /\ result[2].err = Nil) =>
         \E v \in 1..Len(result[2].visited) :
           /\ result[2].visited[v].key = result[1].objName
           /\ result[2].visited[v].fi.Size = Len(bucket[result[1].objName])

\* C29 for a listing that fits in one page
C29_WithinOnePage ==
  SaveFailedAfterUpload =>
    /\ bucket[result[1].objName] # NoObject
    /\ StatSeesUploaded
    /\ (/\ Returned(2, "List") /\ result[2].err = Nil
        /\ Len(result[2].stored) <= PageLimit) =>
         \E v \in 1..Len(result[2].visited) :
           /\ result[2].visited[v].key = result[1].objName
           /\ result[2].visited[v].fi.Size = Len(bucket[result[1].objName])

\* C30: when the namespace cannot be resolved, Save, Stat, Remove, List,
\* Load with a valid range and Rename with differing keys return an error
\* and issue no other remote call, and the bucket is left as it was.
C30_NamespaceFirst ==
  /\ [](\A p \in Procs :
          (\E i \in Calls(p, "GetNamespace") : issued[p][i].err # Nil) =>
             /\ pc[p] = "idle"
             /\ result[p].op = loc[p].op
             /\ result[p].op \in {"Save", "Stat", "Remove", "List", "Load",
                                  "Rename"}
             /\ result[p].err # Nil
             /\ result[p].err.wrap = "unable to fetch namespace"
             /\ Len(issued[p]) = 1)
  /\ [][\A p \in Procs : Issues(p, "GetNamespace") => bucket' = bucket]_vars

\* a Rename with differing keys of a stored object has returned the error
\* of the namespace lookup, and the object is where it was
C30_Witness ==
  \E p \in Procs :
    /\ Returned(p, "Rename")
    /\ result[p].objName # result[p].newname
    /\ result[p].had # NoObject
    /\ bucket[result[p].objName] = result[p].had
    /\ result[p].err.wrap = "unable to fetch namespace"
    /\ Len(issued[p]) = 1

\* the config lacks a field that its auth mode needs: the compartment for
\* InstancePrincipal, the region for workload, and any of the six fields
\* for every other auth mode, which authenticates as user principal
LacksField(cfg) ==
  IF cfg.OCIAuthType = InstancePrincipal THEN cfg.CompartmentOCID = ""
  ELSE IF cfg.OCIAuthType = WorkloadPrincipal THEN cfg.Region = ""
  ELSE \/ cfg.Region = "" \/ cfg.TenancyID = "" \/ cfg.UserID = ""
       \/ cfg.Fingerprint = "" \/ cfg.PrivateKeyFile = ""
       \/ cfg.CompartmentOCID = ""

\* C31: for a config that lacks a field its auth mode needs (an auth mode
\* left unset counts as user principal), open returns a fatal
\* configuration error and builds no backend, in Open and in Create.
C31_OpenValidates ==
  \A p \in Procs :
    (/\ pc[p] = "idle" /\ result[p].op \in {"Open", "Create"}
     /\ LacksField(call.cfg))
    => /\ result[p].err.kind = "Fatal"
       /\ ~be[p].open

\* C31 for the configs whose auth mode is set
C31_ButUnset ==
  \A p \in Procs :
    (/\ pc[p] = "idle" /\ result[p].op \in {"Open", "Create"}
     /\ call.cfg.OCIAuthType # ""
     /\ LacksField(call.cfg))
    => /\ result[p].err.kind = "Fatal"
       /\ ~be[p].open

\* C32: Stat and List agree.  For an object stored under the key of a
\* handle and not written in between, the FileInfo that List passes to fn
\* for that key has the Name and the Size of the FileInfo that a successful
\* Stat of the handle returns, and the Name is the last segment of the key.
C32_StatListAgree ==
  \A p, q \in Procs :
    (/\ Returned(p, "Stat") /\ result[p].err = Nil
     /\ bucket[result[p].objName] # NoObject
     /\ loc[q].op = "List")
    => \A v \in 1..Len(loc[q].visited) :
         loc[q].visited[v].key = result[p].objName =>
           /\ loc[q].visited[v].fi.Name = result[p].fi.Name
           /\ loc[q].visited[v].fi.Size = result[p].fi.Size
           /\ loc[q].visited[v].fi.Name =
                result[p].objName[Len(result[p].objName)]

\* the data file stored in a subdirectory has been passed to fn by a List
\* of the data files and a Stat of its handle has returned
C32_Witness ==
  \E p, q \in Procs :
    /\ Returned(p, "Stat") /\ result[p].err = Nil
    /\ result[p].objName = Filename(Handle("data", "abc"))
    /\ result[p].fi = [Name |-> "abc", Size |-> 2]
    /\ Returned(q, "List") /\ result[q].err = Nil
    /\ \E v \in 1..Len(loc[q].visited) :
         loc[q].visited[v].key = result[p].objName

\* the accepting cases of getRange, by their place in the switch
Accepts(i, start, end) ==
  IF i = 1 THEN caseLastBytes(start, end)
  ELSE IF i = 2 THEN caseFromStart(start, end)
  ELSE caseStartToEnd(start, end)

\* what the case at place i of the switch returns
Formats(i, start, end) ==
  IF i = 1 THEN <<Lit("bytes=")>> \o Dec(end)
  ELSE IF i = 2 THEN <<Lit("bytes=")>> \o Dec(start) \o <<Lit("-")>>
  ELSE <<Lit("bytes=")>> \o Dec(start) \o <<Lit("-")>> \o Dec(end)

\* getRange with its accepting cases tried in the order given
RECURSIVE getRangeTried(_, _, _)
getRangeTried(order, start, end) ==
  IF order = <<>>
  THEN [range |-> <<Lit("bytes="), Lit("-"), Num(1)>>,
        err |-> Err("InvalidRange")]
  ELSE IF Accepts(Head(order), start, end)
  THEN [range |-> Formats(Head(order), start, end), err |-> Nil]
  ELSE getRangeTried(Tail(order), start, end)

\* the orders in which the three cases can be tried
Orders ==
  {o \in [1..3 -> 1..3] : \A i, j \in 1..3 : o[i] = o[j] => i = j}

\* C33: no pair of arguments is accepted by more than one of the three
\* cases of getRange, so that trying the cases in any order returns what
\* getRange returns; and when getRange returns an error to openReader, the
\* read returns that error and the range string that came with it is sent
\* with no request.
C33_CasesExclusive ==
  /\ (call.fn = "getRange" /\ call.done) =>
       /\ Cardinality({i \in 1..3 :
                         Accepts(i, call.start, call.end)}) <= 1
       /\ \A o \in Orders :
            getRangeTried(o, call.start, call.end) =
              [range |-> call.range, err |-> call.err]
  /\ \A p \in Procs :
       (loc[p].op = "Load"
        /\ OpenReaderRange(loc[p].length, loc[p].offset).err # Nil) =>
          /\ Returned(p, "Load")
          /\ result[p].err = OpenReaderRange(loc[p].length, loc[p].offset).err
          /\ Calls(p, "GetObject") = {}
          /\ issued[p] = <<>>

\* getRange has accepted a pair by its second case that the third case
\* refuses only because the end is before the start, and a read whose
\* range getRange refused with the string bytes=-1 has returned
C33_Witness ==
  /\ call.fn = "getRange" /\ call.done
  /\ call.start > 0 /\ call.end = 0
  /\ call.range = <<Lit("bytes="), Num(call.start), Lit("-")>>
  /\ \E p \in Procs :
       /\ Returned(p, "Load")
       /\ loc[p].bytesRange = <<Lit("bytes="), Lit("-"), Num(1)>>
       /\ result[p].err.kind = "InvalidRange"
       /\ issued[p] = <<>>

====
